---- MODULE Spec2Model ----
(***************************************************************************)
(* The audio-processor lifecycle of the host side of the CLAP bindings:    *)
(* the PluginAudioProcessor enum (Started / Stopped / Poisoned) of         *)
(* host/src/process.rs, the two typed handles it wraps, and the process    *)
(* call that is only reachable through a started handle.                   *)
(***************************************************************************)
EXTENDS Integers, Sequences, FiniteSets, TLC

\* ------------------------------------------------------------------ bounds

\* Number of plugin instances a handle may refer to (the Arc it carries).
NumInstances == 2
\* Number of API calls made on the handle in one run.
MaxOps == 4
\* Largest channel buffer length (in frames) handed to process.
MaxFrames == 2
\* Largest absolute value of the steady_time argument.
MaxSteady == 1
\* Largest number of input ports, and of output ports, of one process call.
MaxPorts == 1
\* Largest event space id, event time, port index and payload of an event.
MaxSpace == 1
MaxTime == 1
MaxPortIndex == 1
MaxPayload == 1
\* Largest number of events appended to one event list.
MaxLen == 3
\* Largest number of audio callbacks followed.
MaxCallbacks == 3
\* The number of values of the `size` field: 2^32 in the program, scaled
\* down so that buffers longer than it can be drawn.
SizeModulus == 4
\* Longest buffer a sysex event is made from.
MaxBuffer == 5
\* Largest number of request_callback calls followed.
MaxRequests == 2
\* Largest number of messages waiting in the channel.
MaxQueue == 3
\* Latest time of the example host's clock, in units of 10 ms.
MaxNow == 7
\* Largest number of timers the plugin registers.
MaxIds == 2
\* Duration::from_millis(60), in units of 10 ms: the wait with no timer.
DefaultWait == 6
\* channels: 2 in the stream configuration.
Channels == 2

Instances == 1..NumInstances
NoInstance == 0

FrameLens == 0..MaxFrames
NoCap == -1
FrameCaps == {NoCap} \cup FrameLens
\* The steady_time values tried: a negative one, zero and a positive one.
SteadyTimes == {0 - MaxSteady, 0, MaxSteady}

\* --------------------------------------------------------- handles, results

\* PluginAudioProcessor::Started(StartedPluginAudioProcessor { inner: Some(arc) })
Started(i) == [tag |-> "Started", inner |-> i]

\* PluginAudioProcessor::Stopped(StoppedPluginAudioProcessor { inner: arc })
Stopped(i) == [tag |-> "Stopped", inner |-> i]

\* PluginAudioProcessor::Poisoned: carries no instance reference.
Poisoned == [tag |-> "Poisoned", inner |-> NoInstance]

\* Placeholder for "no handle in this result".
NoHandle == [tag |-> "None", inner |-> NoInstance]

\* Result::Ok(&mut handle) / Ok(handle)
RetOk(h) == [kind |-> "Ok", handle |-> h, err |-> "None", val |-> "None"]

\* Result::Err(HostError::e)
RetErr(e) == [kind |-> "Err", handle |-> NoHandle, err |-> e, val |-> "None"]

\* Err(ProcessingStartError { processor })
RetStartError(s) == [kind |-> "Err", handle |-> s, err |-> "ProcessingStartError", val |-> "None"]

\* A plain value returned (bool of is_started, a host-data reference, a status).
RetVal(v) == [kind |-> "Ok", handle |-> NoHandle, err |-> "None", val |-> v]

\* The call did not return: it unwound with a panic.
RetPanic == [kind |-> "Panic", handle |-> NoHandle, err |-> "None", val |-> "None"]

\* Outcomes of the instance's start_processing / stop_processing, as seen by
\* the handle code: Ok(()), Err(_), or an unwinding panic.
StartOutcomes == {"ok", "err", "panic"}
StopOutcomes == {"ok", "panic"}

VARIABLES
    processor,  \* the PluginAudioProcessor slot the caller owns
    plugin,     \* the plugin instance as driven through its entry points
    outputs,    \* the caller-owned output audio buffer and output event list
    record,     \* the clap_process record of the last process call
    call,       \* the last API call: its name, the slot before it, its result
    ops         \* number of API calls made so far

vars == <<processor, plugin, outputs, record, call, ops>>

\* One process call followed from the host's arguments to what the plugin
\* sees of it.
VARIABLES
    args,       \* the arguments the host handed to process, with its buffers
    audio,      \* the plugin's Audio, built from the record it received
    seen        \* the last thing the plugin read or obtained in this call

dataVars == <<args, audio, seen>>

\* The two handle objects and the reference-counted instance they share,
\* followed statement by statement.
VARIABLES
    started,    \* the StartedPluginAudioProcessor object
    stopped,    \* the StoppedPluginAudioProcessor object
    moved,      \* the local `inner` of stop_processing and of drop
    instance,   \* TRUE while the PluginInstance is alive
    inst,       \* the plugin instance behind the reference count
    hpc         \* the statement the audio thread is at

handleVars == <<started, stopped, moved, instance, inst, hpc>>

\* The threads of the host and the handle they pass around.
VARIABLES
    holder,     \* the thread that owns the handle
    held,       \* the type of the handle: "Started" or "Stopped"
    accessing,  \* per thread, the access to the audio-processor data it is in
    refused,    \* programs the compiler rejected for sharing the handle
    tops        \* operations of the threads so far

threadVars == <<holder, held, accessing, refused, tops>>

\* One event value of a concrete event type.
VARIABLES
    event,      \* the MidiEvent, MidiSysExEvent or Midi2Event value
    ctor,       \* the constructor it came from
    cast        \* the last downcast of its UnknownEvent view

eventVars == <<event, ctor, cast>>

\* Two event values of one type and the result of comparing them.
VARIABLES
    lhs,        \* the left operand of ==
    rhs,        \* the right operand of ==
    mem,        \* the bytes of the caller's memory the sysex buffers lie in
    equal       \* what == returned: "true", "false", "none" before it

eqVars == <<lhs, rhs, mem, equal>>

\* One event list, filled by appending and read by index.
VARIABLES
    list,       \* the events the container holds, in its order
    appended,   \* the events handed to the appends so far, in call order
    got         \* the last read by index: the index and what it returned

listVars == <<list, appended, got>>

\* The example host's audio callback: StreamAudioProcessor.steady_counter,
\* the frames handed to the plugin so far, what the plugin heard in the last
\* call, and the number of callbacks.
VARIABLES steady_counter, handed, heard, callbacks

streamVars == <<steady_counter, handed, heard, callbacks>>

\* The host side of the extension registry: the implementation traits the
\* host type H provides, as pairs of trait and partition type; the
\* extensions declared; the host callback the plugin reached last; and how
\* far the instantiation is.
VARIABLES impls, declared, reached, epc

extVars == <<impls, declared, reached, epc>>

\* The example host: the extensions the loaded plugin supports (`plug`), the
\* Option fields of CpalHostShared and CpalHostMainThread (`cpal`), the
\* Timers struct (`timers`), the clock in units of 10 ms (`now`), where
\* `run` is (`ui`), the AudioPortsConfig built (`ports`), the time by which
\* the embedded event loop wakes up (`deadline`), the last value of
\* smallest_duration() (`pending`), the ids on_timer
\* was called with (`on_timer`), and for each registered timer when it
\* fired last, or was registered if it has not fired (`fired`).
VARIABLES plug, cpal, timers, now, ui, ports, deadline, pending, on_timer, fired

cpalVars == <<plug, cpal, timers, now, ui, ports, deadline, pending, on_timer, fired>>

\* The Timers struct used on its own: what the last call on it answered.
\* The struct, the clock and the firing times are `timers`, `now` and
\* `fired` of the example host.
VARIABLES answer

timerVars == <<answer>>

\* The UI loops of the example host and the channel to the main thread:
\* which function of run_gui_floating, run_gui_embedded and run_cli runs and
\* how far it is (`loop`), the messages sent and not yet received
\* (`channel`), the number of request_callback calls (`requests`), the
\* call_on_main_thread_callback calls made, each with the number of its
\* request, the thread that asked and the thread it ran on (`ran`), and the plugin's GUI: the
\* gui_open flag and how often it was created and destroyed (`pgui`).
VARIABLES loop, channel, requests, ran, pgui

loopVars == <<loop, channel, requests, ran, pgui>>

\* A sysex event over a buffer of the caller: the event (`sysex`), the
\* slice it was made from (`given`), and what buffer_size() and data()
\* returned last (`bytes`).
VARIABLES sysex, given, bytes

sysExVars == <<sysex, given, bytes>>

\* The groups of variables declared after eventVars.
restVars == <<eqVars, listVars, streamVars, extVars, cpalVars, timerVars, loopVars, sysExVars>>

\* What the lifecycle of the handle leaves alone.
otherVars == <<dataVars, handleVars, threadVars, eventVars, restVars>>

\* What following one process call leaves alone.
notDataVars == <<handleVars, threadVars, eventVars, restVars>>

\* What the handle objects leave alone.
notHandleVars == <<vars, dataVars, threadVars, eventVars, restVars>>

\* What the threads leave alone.
notThreadVars == <<vars, dataVars, handleVars, eventVars, restVars>>

\* What the event value leaves alone.
notEventVars == <<vars, dataVars, handleVars, threadVars, restVars>>

\* The groups of variables declared up to eventVars.
firstVars == <<vars, dataVars, handleVars, threadVars, eventVars>>

\* What a comparison leaves alone.
notEqVars == <<firstVars, listVars, streamVars, extVars, cpalVars, timerVars, loopVars, sysExVars>>

\* What the event list leaves alone.
notListVars == <<firstVars, eqVars, streamVars, extVars, cpalVars, timerVars, loopVars, sysExVars>>

\* What the audio callback leaves alone.
notStreamVars == <<firstVars, eqVars, listVars, extVars, cpalVars, timerVars, loopVars, sysExVars>>

\* What the extension registry leaves alone.
notExtVars == <<firstVars, eqVars, listVars, streamVars, cpalVars, timerVars, loopVars, sysExVars>>

\* What the example host leaves alone.
notCpalVars == <<firstVars, eqVars, listVars, streamVars, extVars, timerVars, loopVars, sysExVars>>

\* What the Timers struct alone leaves alone.
notTimerVars == <<firstVars, eqVars, listVars, streamVars, extVars, cpalVars, loopVars, sysExVars>>

\* What the UI loops and their channel leave alone.
notLoopVars == <<firstVars, eqVars, listVars, streamVars, extVars, cpalVars, timerVars, sysExVars>>

\* What the sysex event leaves alone.
notSysExVars == <<firstVars, eqVars, listVars, streamVars, extVars, cpalVars, timerVars, loopVars>>

allVars == <<vars, otherVars>>

\* What the Timers struct used on its own leaves alone: the rest of the
\* example host, and every other group.
notTimersVars ==
    <<plug, cpal, ui, ports, deadline, pending, on_timer,
      firstVars, eqVars, listVars, streamVars, extVars, loopVars, sysExVars>>

\* ------------------------------------------------- state views (lines 35-103)

\* PluginAudioProcessor::as_started
as_started(self) ==
    CASE self.tag = "Started" -> RetOk(self)
      [] self.tag = "Stopped" -> RetErr("ProcessingStopped")
      [] OTHER -> RetErr("ProcessorHandlePoisoned")

\* as_started_mut with the Stopped arm handing out the handle.
as_started_mut_any(self) ==
    CASE self.tag = "Started" -> RetOk(self)
      [] self.tag = "Stopped" -> RetOk(self)
      [] OTHER -> RetErr("ProcessorHandlePoisoned")

\* PluginAudioProcessor::as_started_mut
as_started_mut(self) ==
    CASE self.tag = "Started" -> RetOk(self)
      [] self.tag = "Stopped" -> RetErr("ProcessingStopped")
      [] OTHER -> RetErr("ProcessorHandlePoisoned")

\* as_stopped with the Started and Poisoned arms merged into one.
as_stopped_two_arms(self) ==
    CASE self.tag = "Stopped" -> RetOk(self)
      [] OTHER -> RetErr("ProcessingStarted")

\* PluginAudioProcessor::as_stopped
as_stopped(self) ==
    CASE self.tag = "Stopped" -> RetOk(self)
      [] self.tag = "Started" -> RetErr("ProcessingStarted")
      [] OTHER -> RetErr("ProcessorHandlePoisoned")

\* PluginAudioProcessor::as_stopped_mut
as_stopped_mut(self) ==
    CASE self.tag = "Stopped" -> RetOk(self)
      [] self.tag = "Started" -> RetErr("ProcessingStarted")
      [] OTHER -> RetErr("ProcessorHandlePoisoned")

\* An accessor's outcome: what it returns and whether it dereferenced the
\* instance (inner.wrapper()) to produce it.
Access(r, t) == [res |-> r, touched |-> t]

\* shared_host_data without the Poisoned arm.
shared_host_data_unchecked(self) == Access(RetVal("SharedRef"), TRUE)

\* PluginAudioProcessor::shared_host_data: panics on Poisoned, otherwise
\* forwards to the typed handle, which reads inner.wrapper().shared().
shared_host_data(self) ==
    CASE self.tag = "Poisoned" -> Access(RetPanic, FALSE)
      [] OTHER -> Access(RetVal("SharedRef"), TRUE)

\* PluginAudioProcessor::audio_processor_host_data
audio_processor_host_data(self) ==
    CASE self.tag = "Poisoned" -> Access(RetPanic, FALSE)
      [] OTHER -> Access(RetVal("AudioProcessorRef"), TRUE)

\* PluginAudioProcessor::audio_processor_host_data_mut
audio_processor_host_data_mut(self) ==
    CASE self.tag = "Poisoned" -> Access(RetPanic, FALSE)
      [] OTHER -> Access(RetVal("AudioProcessorMut"), TRUE)

\* PluginAudioProcessor::is_started: a plain bool, never an error.
is_started(self) ==
    CASE self.tag = "Poisoned" -> Access(RetVal("false"), FALSE)
      [] self.tag = "Started" -> Access(RetVal("true"), FALSE)
      [] OTHER -> Access(RetVal("false"), FALSE)

\* ------------------------------------------------ typed handles (186-377)

\* start_processing that hands out a started handle whatever the instance
\* answered.
Stopped_start_processing_ignores_result(s, outcome) == RetOk(Started(s.inner))

\* StoppedPluginAudioProcessor::start_processing(self): consumes the stopped
\* handle; outcome is what inner.start_processing() returned.
Stopped_start_processing(s, outcome) ==
    IF outcome = "ok"
    THEN RetOk(Started(s.inner))
    ELSE RetStartError(s)

\* ProcessingStartError::into_stopped_processor
into_stopped_processor(e) == e.handle

\* stop_processing that wraps a reference to another instance.
Started_stop_processing_other(s) == Stopped((s.inner % NumInstances) + 1)

\* StartedPluginAudioProcessor::stop_processing(self): takes the instance
\* reference out of the started handle, stops, and wraps it again.
Started_stop_processing(s) == Stopped(s.inner)

\* ------------------------------------------------ transitions (105-169)

\* A take that leaves the old value in the slot.
Take_copy(self) == [inner |-> self, slot |-> self]

\* core::mem::replace(self, Poisoned): the old value, and what the slot holds
\* until a branch writes it back.
Take(self) == [inner |-> self, slot |-> Poisoned]

\* What a transition did: the slot afterwards, the result handed to the
\* caller, and the plugin entry point it went through ("none" when it made
\* no call).
Step(slot, res, entry) == [self |-> slot, res |-> res, entry |-> entry]

\* start_processing without `*self = Stopped(e.processor)` on failure.
start_processing_drops_on_failure(self, outcome) ==
    LET t == Take(self)
    IN CASE t.inner.tag = "Poisoned" ->
              Step(t.slot, RetErr("ProcessorHandlePoisoned"), "none")
         [] t.inner.tag = "Started" ->
              Step(t.inner, RetErr("ProcessingStarted"), "none")
         [] OTHER ->
              IF outcome = "panic"
              THEN Step(t.slot, RetPanic, "start")
              ELSE LET r == Stopped_start_processing(t.inner, outcome)
                   IN IF r.kind = "Ok"
                      THEN Step(r.handle, RetOk(r.handle), "start")
                      ELSE Step(t.slot, RetErr("StartProcessingFailed"), "start")

\* start_processing without `*self = Started(s)` in the Started arm.
start_processing_forgets_started(self, outcome) ==
    LET t == Take(self)
    IN CASE t.inner.tag = "Poisoned" ->
              Step(t.slot, RetErr("ProcessorHandlePoisoned"), "none")
         [] t.inner.tag = "Started" ->
              Step(t.slot, RetErr("ProcessingStarted"), "none")
         [] OTHER ->
              IF outcome = "panic"
              THEN Step(t.slot, RetPanic, "start")
              ELSE LET r == Stopped_start_processing(t.inner, outcome)
                   IN IF r.kind = "Ok"
                      THEN Step(r.handle, RetOk(r.handle), "start")
                      ELSE Step(into_stopped_processor(r),
                                RetErr("StartProcessingFailed"), "start")

\* PluginAudioProcessor::start_processing
start_processing(self, outcome) ==
    LET t == Take(self)
    IN CASE t.inner.tag = "Poisoned" ->
              Step(t.slot, RetErr("ProcessorHandlePoisoned"), "none")
         [] t.inner.tag = "Started" ->
              Step(t.inner, RetErr("ProcessingStarted"), "none")
         [] OTHER ->
              IF outcome = "panic"
              THEN Step(t.slot, RetPanic, "start")
              ELSE LET r == Stopped_start_processing(t.inner, outcome)
                   IN IF r.kind = "Ok"
                      THEN Step(r.handle, RetOk(r.handle), "start")
                      ELSE Step(into_stopped_processor(r),
                                RetErr("StartProcessingFailed"), "start")

\* ensure_processing_started without the Started arm.
ensure_processing_started_always(self, outcome) == start_processing(self, outcome)

\* PluginAudioProcessor::ensure_processing_started
ensure_processing_started(self, outcome) ==
    IF self.tag = "Started"
    THEN Step(self, RetOk(self), "none")
    ELSE start_processing(self, outcome)

\* stop_processing that wraps the instance without calling its stop.
stop_processing_skips_stop(self, outcome) ==
    LET t == Take(self)
    IN CASE t.inner.tag = "Poisoned" ->
              Step(t.slot, RetErr("ProcessorHandlePoisoned"), "none")
         [] t.inner.tag = "Stopped" ->
              Step(t.inner, RetErr("ProcessingStopped"), "none")
         [] OTHER ->
              LET s == Started_stop_processing(t.inner)
              IN Step(s, RetOk(s), "none")

\* stop_processing that stops an already stopped instance again.
stop_processing_stops_again(self, outcome) ==
    LET t == Take(self)
    IN CASE t.inner.tag = "Poisoned" ->
              Step(t.slot, RetErr("ProcessorHandlePoisoned"), "none")
         [] t.inner.tag = "Stopped" ->
              IF outcome = "panic"
              THEN Step(t.slot, RetPanic, "stop")
              ELSE Step(t.inner, RetOk(t.inner), "stop")
         [] OTHER ->
              IF outcome = "panic"
              THEN Step(t.slot, RetPanic, "stop")
              ELSE LET s == Started_stop_processing(t.inner)
                   IN Step(s, RetOk(s), "stop")

\* PluginAudioProcessor::stop_processing
stop_processing(self, outcome) ==
    LET t == Take(self)
    IN CASE t.inner.tag = "Poisoned" ->
              Step(t.slot, RetErr("ProcessorHandlePoisoned"), "none")
         [] t.inner.tag = "Stopped" ->
              Step(t.inner, RetErr("ProcessingStopped"), "none")
         [] OTHER ->
              IF outcome = "panic"
              THEN Step(t.slot, RetPanic, "stop")
              ELSE LET s == Started_stop_processing(t.inner)
                   IN Step(s, RetOk(s), "stop")

\* PluginAudioProcessor::ensure_processing_stopped
ensure_processing_stopped(self, outcome) ==
    IF self.tag = "Stopped"
    THEN Step(self, RetOk(self), "none")
    ELSE stop_processing(self, outcome)

\* ------------------------------------------------------ process (193-235)

Min(a, b) == IF a <= b THEN a ELSE b

\* The frame count without the cap applied.
frames_count_uncapped(min_in, min_out, max_frame_count) == Min(min_in, min_out)

\* min_input_sample_count.min(min_output_sample_count), then the optional cap.
frames_count(min_in, min_out, max_frame_count) ==
    LET fc == Min(min_in, min_out)
    IN IF max_frame_count = NoCap THEN fc ELSE Min(fc, max_frame_count)

\* The raw clap_process_status values a plugin may return: CLAP_PROCESS_ERROR
\* (0), CONTINUE (1), CONTINUE_IF_NOT_QUIET (2), TAIL (3), SLEEP (4), and one
\* value outside the protocol.
RawStatuses == 0..5

\* ProcessStatus::from_raw: None for a value outside the protocol, Some(Err)
\* for CLAP_PROCESS_ERROR, Some(Ok(status)) otherwise.
from_raw(raw) ==
    CASE raw = 0 -> "Err"
      [] raw = 1 -> "Continue"
      [] raw = 2 -> "ContinueIfNotQuiet"
      [] raw = 3 -> "Tail"
      [] raw = 4 -> "Sleep"
      [] OTHER -> "None"

\* A record whose steady_time went through an unsigned type.
clap_process_unsigned_steady(a) ==
    [steady_time |-> IF a.steady_time < 0 THEN 0 - a.steady_time ELSE a.steady_time,
     frames_count |-> frames_count(a.min_in, a.min_out, a.max_frame_count),
     transport |-> IF a.transport = "None" THEN "null" ELSE "ptr"]

\* The clap_process record built for one call. `frames_count as u32` is the
\* identity on the buffer lengths considered here (all below 2^32).
clap_process(a) ==
    [steady_time |-> a.steady_time,
     frames_count |-> frames_count(a.min_in, a.min_out, a.max_frame_count),
     transport |-> IF a.transport = "None" THEN "null" ELSE "ptr"]

\* The arguments a caller may hand to process.
ProcessArgs ==
    [min_in : FrameLens, min_out : FrameLens, max_frame_count : FrameCaps,
     steady_time : SteadyTimes, transport : {"None", "Some"}]

\* The records process can build from those arguments.
ProcessRecords == {clap_process(a) : a \in ProcessArgs}

\* process that only treats a status outside the protocol as a failure.
Started_process_ignores_error(rec, has_process, raw) ==
    IF ~has_process
    THEN [res |-> RetErr("NullProcessFunction"), invoked |-> FALSE, record |-> rec]
    ELSE LET status == from_raw(raw)
         IN [res |-> IF status \in {"None"}
                     THEN RetErr("ProcessingFailed")
                     ELSE RetVal(status),
             invoked |-> TRUE, record |-> rec]

\* StartedPluginAudioProcessor::process: builds the record, fails with
\* NullProcessFunction when the instance has no process entry point,
\* otherwise calls it and converts the raw status.
Started_process(rec, has_process, raw) ==
    IF ~has_process
    THEN [res |-> RetErr("NullProcessFunction"), invoked |-> FALSE, record |-> rec]
    ELSE LET status == from_raw(raw)
         IN [res |-> IF status \in {"None", "Err"}
                     THEN RetErr("ProcessingFailed")
                     ELSE RetVal(status),
             invoked |-> TRUE, record |-> rec]

\* ------------------------------------------------------ the plugin's side

\* The instance after the handle went through one of its entry points:
\* a start that reports success puts the plugin in processing, a stop takes
\* it out; each is counted.
ApplyEntry(p, entry, outcome) ==
    CASE entry = "start" ->
              [p EXCEPT !.starts = @ + 1,
                        !.processing = IF outcome = "ok" THEN TRUE ELSE @]
      [] entry = "stop" ->
              [p EXCEPT !.stops = @ + 1, !.processing = FALSE]
      [] OTHER -> p

NoRecord == [steady_time |-> 0, frames_count |-> 0, transport |-> "none"]
Untouched == -1

\* The record of one API call.
Call(op, pre, res, entry, outcome, touched) ==
    [op |-> op, pre |-> pre, res |-> res, entry |-> entry,
     outcome |-> IF entry = "none" THEN "none" ELSE outcome,
     touched |-> touched]

\* ------------------------------------------------------------------- Init

NoArgs == [min_in |-> 0, min_out |-> 0, max_frame_count |-> NoCap,
           steady_time |-> 0, transport |-> "none", inputs |-> 0, outputs |-> 0]
NoAudio == [frames_count |-> 0, inputs |-> 0, outputs |-> 0]
NoSeen == [what |-> "nothing", value |-> 0]

Seen(what, value) == [what |-> what, value |-> value]

\* No process call is being followed.
DataIdle ==
    /\ args = NoArgs
    /\ audio = NoAudio
    /\ seen = NoSeen

\* A handle object: live until moved from or dropped, with its `inner`.
Handle(live, inner) == [live |-> live, inner |-> inner]
NoObject == Handle(FALSE, NoInstance)

\* The plugin instance behind the Arc, with the start-processing and
\* stop-processing calls the plugin has received, in order.
RawInstance(active, processing, destroyed, starts, processes) ==
    [active |-> active, processing |-> processing, destroyed |-> destroyed,
     starts |-> starts, processes |-> processes, calls |-> <<>>]

\* No handle object is being followed.
HandleIdle ==
    /\ started = NoObject
    /\ stopped = NoObject
    /\ moved = NoInstance
    /\ instance = FALSE
    /\ inst = RawInstance(FALSE, FALSE, FALSE, 0, 0)
    /\ hpc = "idle"

\* The threads of the host.
Threads == {"main", "audio"}

\* No thread is being followed.
ThreadIdle ==
    /\ holder = "main"
    /\ held = "Stopped"
    /\ accessing = [t \in Threads |-> "none"]
    /\ refused = 0
    /\ tops = 0

\* clap_sys::events: the type ids of the three MIDI event types, and the id
\* of the core event space.
CLAP_EVENT_MIDI == 10
CLAP_EVENT_MIDI_SYSEX == 11
CLAP_EVENT_MIDI2 == 12
CLAP_CORE_EVENT_SPACE_ID == 0

\* A clap_event_header, as far as the event types read it.
Header(type_id, space_id, time) ==
    [type_id |-> type_id, space_id |-> space_id, time |-> time]

\* A raw event struct: clap_event_midi, clap_event_midi_sysex (whose payload
\* is the buffer pointer and size) or clap_event_midi2.
RawEvent(layout, header, port_index, data) ==
    [layout |-> layout, header |-> header, port_index |-> port_index,
     data |-> data]

\* A value of a concrete event type wrapping a raw struct.
Event(type, inner) == [type |-> type, inner |-> inner]

NoEvent == Event("none", RawEvent("none", Header(0, 0, 0), 0, 0))
NoCast == [to |-> "none", kind |-> "None", type |-> "none", inner |-> NoEvent.inner]

\* No event value is being followed.
EventIdle ==
    /\ event = NoEvent
    /\ ctor = "none"
    /\ cast = NoCast

\* The cells of the caller's memory, and the byte slices `&[u8]` in it.
Addrs == 0..MaxPayload
Slices ==
    {[ptr |-> a, len |-> n] : a \in Addrs, n \in 0..(MaxPayload + 1)}
        \ {sl \in [ptr : Addrs, len : 0..(MaxPayload + 1)] :
               sl.ptr + sl.len > MaxPayload + 1}

\* Nothing is being compared.
EqIdle ==
    /\ lhs = NoEvent
    /\ rhs = NoEvent
    /\ mem = [a \in Addrs |-> 0]
    /\ equal = "none"

NoRead == [index |-> 0, kind |-> "none", time |-> 0, payload |-> 0]

\* An empty event list.
ListIdle ==
    /\ list = <<>>
    /\ appended = <<>>
    /\ got = NoRead

\* What the plugin hears of one process call.
Heard(steady_time, frames, status) ==
    [steady_time |-> steady_time, frames |-> frames, status |-> status]

\* StreamAudioProcessor::new: no callback has run.
StreamIdle ==
    /\ steady_counter = 0
    /\ handed = 0
    /\ heard = Heard(0, 0, "none")
    /\ callbacks = 0

\* A host callback: the extension, its method, the partition whose
\* implementation ran.
Callback(ext, method, partition) ==
    [ext |-> ext, method |-> method, partition |-> partition]

\* No host type is being followed.
ExtIdle ==
    /\ impls = {}
    /\ declared = {}
    /\ reached = Callback("none", "none", "none")
    /\ epc = "none"

\* Option<T> of a number.
None == [some |-> FALSE, v |-> 0]
Some(x) == [some |-> TRUE, v |-> x]

\* The extensions of a plugin: gui is "absent", or what the GUI extension
\* makes of the API questions: no API, a floating one, an embedded one.
Plugin(gui, timer, audio_ports) ==
    [gui |-> gui, timer |-> timer, audio_ports |-> audio_ports]

\* CpalHostShared::new and CpalHostMainThread::new: every Option is None.
CpalNew ==
    [gui |-> FALSE, audio_ports |-> FALSE, available_gui_api |-> "None",
     timer_support |-> FALSE, gui_open |-> FALSE]

\* Timers::new
Timers_new == [latest_id |-> 0, smallest_duration |-> None, timers |-> <<>>]

\* `run` has not been called.
CpalIdle ==
    /\ plug = Plugin("absent", FALSE, FALSE)
    /\ cpal = CpalNew
    /\ timers = Timers_new
    /\ now = 0
    /\ ui = "none"
    /\ ports = [built |-> FALSE, input_channel_counts |-> <<>>,
                output_channel_counts |-> <<>>]
    /\ deadline = 0
    /\ pending = None
    /\ on_timer = {}
    /\ fired = <<>>

\* What a call on the Timers answered: the id it was about and whether it
\* succeeded.
Answer(op, id, ok) == [op |-> op, id |-> id, ok |-> ok]

\* No call has been made on the Timers.
TimerIdle == answer = Answer("none", 0, FALSE)

\* A MainThreadMessage in the channel, with the number of the request
\* that sent it and the thread that sent it.
Message(kind, n, from) == [kind |-> kind, n |-> n, from |-> from]

\* `run` has not reached run_ui: the channel is empty, no GUI exists.
LoopIdle ==
    /\ loop = "none"
    /\ channel = <<>>
    /\ requests = 0
    /\ ran = <<>>
    /\ pgui = [gui_open |-> FALSE, created |-> 0, destroyed |-> 0]

\* What was read from a sysex event.
Bytes(what, size, data) == [what |-> what, size |-> size, data |-> data]

\* No sysex event has been made.
SysExIdle ==
    /\ sysex = NoEvent
    /\ given = [ptr |-> 0, len |-> 0]
    /\ bytes = Bytes("none", 0, <<>>)

RestIdle == EqIdle /\ ListIdle /\ StreamIdle /\ ExtIdle /\ CpalIdle /\ TimerIdle /\ LoopIdle /\ SysExIdle

OthersIdle == DataIdle /\ HandleIdle /\ ThreadIdle /\ EventIdle /\ RestIdle

\* After activation: a Stopped handle for one instance, nothing called yet.
Activated ==
    /\ processor \in {Stopped(i) : i \in Instances}
    /\ plugin \in [processing : {FALSE}, starts : {0}, stops : {0},
                   processes : {0}, has_process : BOOLEAN]
    /\ outputs = [audio |-> Untouched, events |-> Untouched]
    /\ record = NoRecord
    /\ call = Call("new", processor, RetOk(processor), "none", "none", FALSE)
    /\ ops = 0

Init == Activated /\ OthersIdle

\* The same, for one instance whose plugin has a process entry point.
Quiet == Init /\ processor = Stopped(1) /\ plugin.has_process

\* ---------------------------------------------------------------- actions

\* A call that only looks at the slot.
View(op, r) ==
    /\ ops < MaxOps
    /\ ops' = ops + 1
    /\ call' = Call(op, processor, r.res, "none", "none", r.touched)
    /\ UNCHANGED <<processor, plugin, outputs, record>>
    /\ UNCHANGED otherVars

AsStarted == View("as_started", Access(as_started(processor), FALSE))

AsStartedMut == View("as_started_mut", Access(as_started_mut(processor), FALSE))

AsStopped == View("as_stopped", Access(as_stopped(processor), FALSE))

AsStoppedMut == View("as_stopped_mut", Access(as_stopped_mut(processor), FALSE))

SharedHostData == View("shared_host_data", shared_host_data(processor))

AudioProcessorHostData ==
    View("audio_processor_host_data", audio_processor_host_data(processor))

AudioProcessorHostDataMut ==
    View("audio_processor_host_data_mut", audio_processor_host_data_mut(processor))

IsStarted == View("is_started", is_started(processor))

\* A call that may move the slot and go through a plugin entry point.
Transition(op, t, outcome) ==
    /\ ops < MaxOps
    /\ ops' = ops + 1
    /\ processor' = t.self
    /\ plugin' = ApplyEntry(plugin, t.entry, outcome)
    /\ call' = Call(op, processor, t.res, t.entry, outcome, FALSE)
    /\ UNCHANGED <<outputs, record>>
    /\ UNCHANGED otherVars

StartProcessing ==
    \E outcome \in StartOutcomes :
        Transition("start_processing", start_processing(processor, outcome), outcome)

EnsureProcessingStarted ==
    \E outcome \in StartOutcomes :
        Transition("ensure_processing_started",
                   ensure_processing_started(processor, outcome), outcome)

StopProcessing ==
    \E outcome \in StopOutcomes :
        Transition("stop_processing", stop_processing(processor, outcome), outcome)

EnsureProcessingStopped ==
    \E outcome \in StopOutcomes :
        Transition("ensure_processing_stopped",
                   ensure_processing_stopped(processor, outcome), outcome)

\* processor.as_started_mut()?.process(..) on a slot that is not Started:
\* the `?` returns the error of as_started_mut and process is never entered.
ProcessRejected ==
    LET s == as_started_mut(processor)
    IN /\ s.kind # "Ok"
       /\ ops < MaxOps
       /\ ops' = ops + 1
       /\ call' = Call("process", processor, s, "none", "none", FALSE)
       /\ UNCHANGED <<processor, plugin, outputs, record>>
       /\ UNCHANGED otherVars

\* processor.as_started_mut()?.process(..) on a Started slot. The plugin,
\* when called, receives the record, writes frames_count frames into the
\* output buffers of this call and may push an output event.
Process ==
    /\ as_started_mut(processor).kind = "Ok"
    /\ ops < MaxOps
    /\ UNCHANGED otherVars
    /\ \E rec \in ProcessRecords, raw \in RawStatuses, pushed \in 0..1 :
        LET p == Started_process(rec, plugin.has_process, raw)
        IN /\ ops' = ops + 1
           /\ UNCHANGED processor
           /\ call' = Call("process", processor, p.res,
                           IF p.invoked THEN "process" ELSE "none",
                           from_raw(raw), FALSE)
           /\ IF p.invoked
              THEN /\ plugin' = [plugin EXCEPT !.processes = @ + 1]
                   /\ record' = p.record
                   /\ outputs' = [audio |-> p.record.frames_count,
                                  events |-> pushed]
              ELSE UNCHANGED <<plugin, outputs, record>>

Next ==
    \/ AsStarted
    \/ AsStartedMut
    \/ AsStopped
    \/ AsStoppedMut
    \/ SharedHostData
    \/ AudioProcessorHostData
    \/ AudioProcessorHostDataMut
    \/ IsStarted
    \/ StartProcessing
    \/ EnsureProcessingStarted
    \/ StopProcessing
    \/ EnsureProcessingStopped
    \/ ProcessRejected
    \/ Process

Spec == Init /\ [][Next]_allVars

\* ------------------------------------- one process call, host to plugin

\* The channel buffer lengths of the frame count scenario.
ScenarioLens == {16, 32, 64}

DataLens == FrameLens \cup ScenarioLens
DataCaps == {NoCap} \cup DataLens
PortCounts == 0..MaxPorts

\* The arguments of one process call: those of ProcessArgs, and the number
\* of ports of the input and of the output buffers.
DataArgs ==
    [min_in : DataLens, min_out : DataLens, max_frame_count : DataCaps,
     steady_time : SteadyTimes, transport : {"None", "Some"},
     inputs : PortCounts, outputs : PortCounts]

\* The buffer fields of the clap_process record: audio_inputs_count and
\* audio_outputs_count are the lengths of the raw buffer arrays.
clap_process_buffers(a) ==
    [audio_inputs_count |-> a.inputs, audio_outputs_count |-> a.outputs]

\* Process::frames_count
Process_frames_count(process) == process.frames_count

\* Process::steady_time
Process_steady_time(process) == process.steady_time

\* Process::transport: `&*self.inner.transport`, whatever the pointer. For
\* the host's TransportEvent it is a reference to that event; for a null
\* pointer the dereference is undefined: the call faults, or a reference
\* to no event comes back.
Process_transport(process) ==
    IF process.transport = "null"
    THEN {[kind |-> "fault"], [kind |-> "NoEvent"]}
    ELSE {[kind |-> "TransportEvent"]}

\* An Audio whose frame count was read from the wrong field of the record.
Audio_from_raw_mixed_up(process, bufs) ==
    [frames_count |-> bufs.audio_inputs_count,
     inputs |-> bufs.audio_inputs_count,
     outputs |-> bufs.audio_outputs_count]

\* Audio::from_raw: the record's frame count and its two buffer arrays.
Audio_from_raw(process, bufs) ==
    [frames_count |-> process.frames_count,
     inputs |-> bufs.audio_inputs_count,
     outputs |-> bufs.audio_outputs_count]

NoPort == [kind |-> "None", index |-> 0, frames_count |-> 0]

\* Audio::input: self.inputs.get(index), as an InputPort of frames_count frames.
Audio_input(a, index) ==
    IF index < a.inputs
    THEN [kind |-> "InputPort", index |-> index, frames_count |-> a.frames_count]
    ELSE NoPort

\* Audio::output: self.outputs.get_mut(index), as an OutputPort of
\* frames_count frames.
Audio_output(a, index) ==
    IF index < a.outputs
    THEN [kind |-> "OutputPort", index |-> index, frames_count |-> a.frames_count]
    ELSE NoPort

\* Audio::port_pairs: the pair of the input and the output port of one
\* index, either of which may be missing, both of the Audio's frame count.
Audio_port_pair(a, index) ==
    [kind |-> "PortPair", index |-> index, frames_count |-> a.frames_count,
     input |-> Audio_input(a, index), output |-> Audio_output(a, index)]

\* A started handle on the first instance, before its first process call.
DataInit ==
    /\ processor = Started(1)
    /\ plugin = [processing |-> TRUE, starts |-> 1, stops |-> 0,
                 processes |-> 0, has_process |-> TRUE]
    /\ outputs = [audio |-> Untouched, events |-> Untouched]
    /\ record = NoRecord
    /\ call = Call("start_processing", Stopped(1), RetOk(Started(1)), "start", "ok", FALSE)
    /\ ops = 1
    /\ DataIdle
    /\ HandleIdle
    /\ ThreadIdle
    /\ EventIdle
    /\ RestIdle

\* The host calls process: the record is built from the arguments and the
\* plugin's entry point receives it and builds its Audio from it.
HostProcess ==
    /\ args = NoArgs
    /\ seen' = NoSeen
    /\ UNCHANGED <<processor, plugin, outputs, call, ops>>
    /\ UNCHANGED notDataVars
    /\ \E a \in DataArgs :
        /\ args' = a
        /\ record' = clap_process(a)
        /\ audio' = Audio_from_raw(clap_process(a), clap_process_buffers(a))

\* What the plugin does with the record and the Audio it was given.
PluginSees(s) ==
    /\ args # NoArgs
    /\ seen' = s
    /\ UNCHANGED <<args, audio, vars>>
    /\ UNCHANGED notDataVars

PluginFramesCount == PluginSees(Seen("frames_count", Process_frames_count(record)))

PluginSteadyTime == PluginSees(Seen("steady_time", Process_steady_time(record)))

PluginTransport ==
    \E got_ref \in Process_transport(record) : PluginSees(Seen("transport", got_ref))

PluginInput == \E i \in 0..MaxPorts : PluginSees(Seen("port", Audio_input(audio, i)))

PluginOutput == \E i \in 0..MaxPorts : PluginSees(Seen("port", Audio_output(audio, i)))

PluginPortPairs ==
    \E i \in 0..MaxPorts :
        /\ i < audio.inputs \/ i < audio.outputs
        /\ PluginSees(Seen("port", Audio_port_pair(audio, i)))

\* The plugin's entry point returns, which ends the call.
PluginReturns ==
    /\ args # NoArgs
    /\ args' = NoArgs
    /\ audio' = NoAudio
    /\ seen' = NoSeen
    /\ UNCHANGED vars
    /\ UNCHANGED notDataVars

DataNext ==
    \/ HostProcess
    \/ PluginReturns
    \/ PluginFramesCount
    \/ PluginSteadyTime
    \/ PluginTransport
    \/ PluginInput
    \/ PluginOutput
    \/ PluginPortPairs

DataSpec == DataInit /\ [][DataNext]_allVars

\* ------------------------------------------- the handles and the instance

\* A started handle whose reference does not keep the instance alive.
StartedHolds_weak(s) == {}

\* The instance reference a started handle owns: its Option<Arc<..>>.
StartedHolds(s) == IF s.live /\ s.inner # NoInstance THEN {"started"} ELSE {}

\* The instance reference a stopped handle owns: its Arc<..>.
StoppedHolds(s) == IF s.live THEN {"stopped"} ELSE {}

\* Everything that owns a reference to the instance.
Holders(st, sp, mv, pi) ==
    StartedHolds(st) \cup StoppedHolds(sp)
        \cup (IF mv # NoInstance THEN {"moved"} ELSE {})
        \cup (IF pi THEN {"instance"} ELSE {})

\* The end of the instance: deactivated, then destroyed.
Teardown(r) == [r EXCEPT !.active = FALSE, !.processing = FALSE, !.destroyed = TRUE]

\* One owner lets go: the last one tears the instance down.
Release(r, left) == IF left = {} THEN Teardown(r) ELSE r

\* self.inner.clone(): the started handle keeps its reference.
Option_clone(s) == s

\* self.inner.take(): the started handle is left with None.
Option_take(s) == [s EXCEPT !.inner = NoInstance]

\* A stop that never reaches the plugin.
Inner_stop_processing_unheard(r) == [r EXCEPT !.processing = FALSE]

\* inner.stop_processing(): the plugin receives the stop-processing call.
Inner_stop_processing(r) ==
    [r EXCEPT !.processing = FALSE, !.calls = Append(@, "stop")]

\* After activation: the PluginInstance and a stopped handle share the
\* instance, which is active and not processing.
HandleInit ==
    /\ Activated
    /\ plugin.has_process
    /\ DataIdle
    /\ ThreadIdle
    /\ EventIdle
    /\ RestIdle
    /\ started = NoObject
    /\ stopped = Handle(TRUE, processor.inner)
    /\ moved = NoInstance
    /\ instance = TRUE
    /\ inst = RawInstance(TRUE, FALSE, FALSE, 0, 0)
    /\ hpc = "idle"

\* StoppedPluginAudioProcessor::start_processing: on Ok the reference moves
\* into a new started handle, on Err the stopped handle comes back.
HStartProcessing ==
    /\ hpc = "idle"
    /\ stopped.live
    /\ inst.starts < MaxOps
    /\ \E outcome \in {"ok", "err"} :
        /\ inst' = [inst EXCEPT !.starts = @ + 1,
                                !.processing = (outcome = "ok"),
                                !.calls = Append(@, IF outcome = "ok"
                                                    THEN "start" ELSE "refused")]
        /\ IF outcome = "ok"
           THEN /\ started' = Handle(TRUE, stopped.inner)
                /\ stopped' = NoObject
           ELSE UNCHANGED <<started, stopped>>
    /\ UNCHANGED <<moved, instance, hpc>>
    /\ UNCHANGED notHandleVars

\* StartedPluginAudioProcessor::process
HProcess ==
    /\ hpc = "idle"
    /\ StartedHolds(started) # {}
    /\ inst.processes < MaxOps
    /\ inst' = [inst EXCEPT !.processes = @ + 1]
    /\ UNCHANGED <<started, stopped, moved, instance, hpc>>
    /\ UNCHANGED notHandleVars

\* stop_processing, `let inner = self.inner.take().unwrap()`
HStopTake ==
    /\ hpc = "idle"
    /\ StartedHolds(started) # {}
    /\ moved' = started.inner
    /\ started' = Option_take(started)
    /\ hpc' = "stop_taken"
    /\ UNCHANGED <<stopped, instance, inst>>
    /\ UNCHANGED notHandleVars

\* stop_processing and drop, `inner.stop_processing()`
HStopPlugin ==
    /\ hpc \in {"stop_taken", "drop_taken"}
    /\ inst' = Inner_stop_processing(inst)
    /\ hpc' = IF hpc = "stop_taken" THEN "stop_stopped" ELSE "drop_stopped"
    /\ UNCHANGED <<started, stopped, moved, instance>>
    /\ UNCHANGED notHandleVars

\* stop_processing, `StoppedPluginAudioProcessor { inner, .. }`: the result
\* exists, `self` is not dropped yet.
HStopWrap ==
    /\ hpc = "stop_stopped"
    /\ stopped' = Handle(TRUE, moved)
    /\ moved' = NoInstance
    /\ hpc' = "stop_wrapped"
    /\ UNCHANGED <<started, instance, inst>>
    /\ UNCHANGED notHandleVars

\* Drop for StartedPluginAudioProcessor, entered by the caller or at the end
\* of stop_processing: `if let Some(inner) = self.inner.take()`.
HDropStarted ==
    /\ hpc \in {"idle", "stop_wrapped"}
    /\ started.live
    /\ IF started.inner # NoInstance
       THEN /\ moved' = started.inner
            /\ started' = Option_take(started)
            /\ hpc' = "drop_taken"
       ELSE /\ started' = NoObject
            /\ hpc' = "idle"
            /\ UNCHANGED moved
    /\ UNCHANGED <<stopped, instance, inst>>
    /\ UNCHANGED notHandleVars

\* Drop for StartedPluginAudioProcessor: the end of the `if let` drops the
\* local `inner`, and the object is gone.
HDropRelease ==
    /\ hpc = "drop_stopped"
    /\ moved' = NoInstance
    /\ started' = NoObject
    /\ hpc' = "idle"
    /\ inst' = Release(inst, Holders(NoObject, stopped, NoInstance, instance))
    /\ UNCHANGED <<stopped, instance>>
    /\ UNCHANGED notHandleVars

\* The stopped handle is dropped.
HDropStopped ==
    /\ hpc = "idle"
    /\ stopped.live
    /\ stopped' = NoObject
    /\ inst' = Release(inst, Holders(started, NoObject, moved, instance))
    /\ UNCHANGED <<started, moved, instance, hpc>>
    /\ UNCHANGED notHandleVars

\* The main thread drops the PluginInstance, wherever the audio thread is.
HDropInstance ==
    /\ instance
    /\ instance' = FALSE
    /\ inst' = Release(inst, Holders(started, stopped, moved, FALSE))
    /\ UNCHANGED <<started, stopped, moved, hpc>>
    /\ UNCHANGED notHandleVars

HandleNext ==
    \/ HStartProcessing
    \/ HProcess
    \/ HStopTake
    \/ HStopPlugin
    \/ HStopWrap
    \/ HDropStarted
    \/ HDropRelease
    \/ HDropStopped
    \/ HDropInstance

HandleSpec == HandleInit /\ [][HandleNext]_allVars

\* ------------------------------------------------ the handle and threads

\* A handle type whose auto traits are those of its Arc alone.
IsSync_auto(type) == TRUE

\* Whether a handle type is Sync: the `_no_sync: PhantomData<UnsafeCell<()>>`
\* field of both types makes them not Sync.
IsSync(type) == FALSE

\* The threads inside an access to the audio-processor data.
Accessors == {t \in Threads : accessing[t] # "none"}

\* After activation on the main thread: it owns the stopped handle.
ThreadInit ==
    /\ Activated
    /\ plugin.has_process
    /\ DataIdle
    /\ HandleIdle
    /\ ThreadIdle
    /\ EventIdle
    /\ RestIdle

\* One more operation of a thread.
ThreadOp ==
    /\ tops < MaxOps
    /\ tops' = tops + 1
    /\ UNCHANGED notThreadVars

\* The owner moves the handle into a closure run by the other thread, as
\* the audio stream's callback: nothing borrows the handle at that point.
TSend ==
    /\ ThreadOp
    /\ Accessors = {}
    /\ \E t \in Threads \ {holder} : holder' = t
    /\ UNCHANGED <<held, accessing, refused>>

\* start_processing and stop_processing take the handle by value and give
\* back one of the other type.
TStartStop ==
    /\ ThreadOp
    /\ Accessors = {}
    /\ held' = IF held = "Stopped" THEN "Started" ELSE "Stopped"
    /\ UNCHANGED <<holder, accessing, refused>>

\* The owner enters audio_processor_host_data (&self) or
\* audio_processor_host_data_mut (&mut self).
TAccess ==
    /\ ThreadOp
    /\ accessing[holder] = "none"
    /\ \E mode \in {"shared", "mut"} :
        accessing' = [accessing EXCEPT ![holder] = mode]
    /\ UNCHANGED <<holder, held, refused>>

\* Another thread is handed a `&` to the handle while the owner keeps it,
\* and enters audio_processor_host_data through it: the program compiles
\* only if the handle type is Sync.
TShare ==
    /\ ThreadOp
    /\ accessing[holder] # "mut"
    /\ \E t \in Threads \ {holder} :
        /\ accessing[t] = "none"
        /\ IF IsSync(held)
           THEN /\ accessing' = [accessing EXCEPT ![t] = "shared"]
                /\ UNCHANGED refused
           ELSE /\ refused' = refused + 1
                /\ UNCHANGED accessing
    /\ UNCHANGED <<holder, held>>

\* The reference returned by an accessor goes out of scope.
TEndAccess ==
    /\ \E t \in Accessors : accessing' = [accessing EXCEPT ![t] = "none"]
    /\ UNCHANGED <<holder, held, refused, tops>>
    /\ UNCHANGED notThreadVars

ThreadNext ==
    \/ TSend
    \/ TStartStop
    \/ TAccess
    \/ TShare
    \/ TEndAccess

ThreadSpec == ThreadInit /\ [][ThreadNext]_allVars

\* ------------------------------------------------------- the event types

EventTypes == {"MidiEvent", "MidiSysExEvent", "Midi2Event"}

\* Event::TYPE_ID of each type.
TYPE_ID(type) ==
    CASE type = "MidiEvent" -> CLAP_EVENT_MIDI
      [] type = "MidiSysExEvent" -> CLAP_EVENT_MIDI_SYSEX
      [] type = "Midi2Event" -> CLAP_EVENT_MIDI2

TypeIds == {TYPE_ID(t) : t \in EventTypes}

\* Any header a caller can write into a raw struct.
RawHeaders == {Header(i, sp, t) : i \in TypeIds, sp \in 0..MaxSpace, t \in 0..MaxTime}

\* EventHeader::<E>::new(time).into_raw(): the header of type E.
EventHeader_new(type, time) == Header(TYPE_ID(type), CLAP_CORE_EVENT_SPACE_ID, time)

\* MidiEvent::new
MidiEvent_new(header, port_index, data) ==
    Event("MidiEvent", RawEvent("clap_event_midi", header, port_index, data))

\* MidiEvent::from_raw
MidiEvent_from_raw(rawEvent) == Event("MidiEvent", rawEvent)

\* A sysex event whose size is one more than the length of the slice.
MidiSysExEvent_new_oversized(header, port_index, buffer) ==
    [type |-> "MidiSysExEvent",
     inner |-> [layout |-> "clap_event_midi_sysex", header |-> header,
                port_index |-> port_index,
                data |-> [buffer |-> buffer.ptr, size |-> buffer.len + 1]]]

\* MidiSysExEvent::new: buffer.as_ptr(), and buffer.len() as u32, which
\* keeps the length modulo the number of values of the field.
MidiSysExEvent_new(header, port_index, buffer) ==
    Event("MidiSysExEvent",
          RawEvent("clap_event_midi_sysex", header, port_index,
                   [buffer |-> buffer.ptr, size |-> buffer.len % SizeModulus]))

\* MidiSysExEvent::from_raw (unsafe)
MidiSysExEvent_from_raw(rawEvent) == Event("MidiSysExEvent", rawEvent)

\* Midi2Event::from_raw
Midi2Event_from_raw(rawEvent) == Event("Midi2Event", rawEvent)

\* set_data of MidiEvent and Midi2Event
set_data(e, data) == [e EXCEPT !.inner.data = data]

\* set_port_index of the three types
set_port_index(e, port_index) == [e EXCEPT !.inner.port_index = port_index]

\* Event::as_unknown: the same memory, seen through its header only.
as_unknown(e) == e.inner

\* UnknownEvent::as_event::<U>: present when the header carries U's type id
\* and the core space id, and then the same memory seen as a U.
downcast(u, type) ==
    IF u.header.type_id = TYPE_ID(type) /\ u.header.space_id = CLAP_CORE_EVENT_SPACE_ID
    THEN [to |-> type, kind |-> "Some", type |-> type, inner |-> u]
    ELSE [to |-> type, kind |-> "None", type |-> "none", inner |-> NoEvent.inner]

\* No event value yet.
EventInit ==
    /\ Activated
    /\ plugin.has_process
    /\ DataIdle
    /\ HandleIdle
    /\ ThreadIdle
    /\ EventIdle
    /\ RestIdle

\* MidiEvent::new with a header made for the type.
NewMidiEvent ==
    /\ \E t \in 0..MaxTime, p \in 0..MaxPortIndex, d \in 0..MaxPayload :
        event' = MidiEvent_new(EventHeader_new("MidiEvent", t), p, d)
    /\ ctor' = "new"
    /\ cast' = NoCast
    /\ UNCHANGED notEventVars

\* MidiSysExEvent::new with a header made for the type.
NewMidiSysExEvent ==
    /\ \E t \in 0..MaxTime, p \in 0..MaxPortIndex, b \in Slices :
        event' = MidiSysExEvent_new(EventHeader_new("MidiSysExEvent", t), p, b)
    /\ ctor' = "new"
    /\ cast' = NoCast
    /\ UNCHANGED notEventVars

\* MidiEvent::from_raw on a clap_event_midi the caller filled in.
MidiEventFromRaw ==
    /\ \E h \in RawHeaders, p \in 0..MaxPortIndex, d \in 0..MaxPayload :
        event' = MidiEvent_from_raw(RawEvent("clap_event_midi", h, p, d))
    /\ ctor' = "from_raw"
    /\ cast' = NoCast
    /\ UNCHANGED notEventVars

\* Midi2Event::from_raw on a clap_event_midi2 the caller filled in.
Midi2EventFromRaw ==
    /\ \E h \in RawHeaders, p \in 0..MaxPortIndex, d \in 0..MaxPayload :
        event' = Midi2Event_from_raw(RawEvent("clap_event_midi2", h, p, d))
    /\ ctor' = "from_raw"
    /\ cast' = NoCast
    /\ UNCHANGED notEventVars

\* unsafe MidiSysExEvent::from_raw on a clap_event_midi_sysex.
MidiSysExEventFromRaw ==
    /\ \E h \in RawHeaders, p \in 0..MaxPortIndex, b \in Slices :
        event' = MidiSysExEvent_from_raw(
                     RawEvent("clap_event_midi_sysex", h, p,
                              [buffer |-> b.ptr, size |-> b.len]))
    /\ ctor' = "unsafe from_raw"
    /\ cast' = NoCast
    /\ UNCHANGED notEventVars

SetData ==
    /\ event.type \in {"MidiEvent", "Midi2Event"}
    /\ \E d \in 0..MaxPayload : event' = set_data(event, d)
    /\ cast' = NoCast
    /\ UNCHANGED ctor
    /\ UNCHANGED notEventVars

SetPortIndex ==
    /\ event.type \in EventTypes
    /\ \E p \in 0..MaxPortIndex : event' = set_port_index(event, p)
    /\ cast' = NoCast
    /\ UNCHANGED ctor
    /\ UNCHANGED notEventVars

\* event.as_unknown().as_event::<U>()
Downcast ==
    /\ event.type \in EventTypes
    /\ \E type \in EventTypes : cast' = downcast(as_unknown(event), type)
    /\ UNCHANGED <<event, ctor>>
    /\ UNCHANGED notEventVars

EventNext ==
    \/ NewMidiEvent
    \/ NewMidiSysExEvent
    \/ MidiEventFromRaw
    \/ Midi2EventFromRaw
    \/ MidiSysExEventFromRaw
    \/ SetData
    \/ SetPortIndex
    \/ Downcast

EventSpec == EventInit /\ [][EventNext]_allVars

\* -------------------------------------------------- equality of events

\* MidiEvent == that also looks at the time in the header.
MidiEvent_eq_with_header(a, b) ==
    /\ a.inner.data = b.inner.data
    /\ a.inner.port_index = b.inner.port_index
    /\ a.inner.header.time = b.inner.header.time

\* PartialEq for MidiEvent, and for Midi2Event, whose eq reads the same.
MidiEvent_eq(a, b) ==
    a.inner.data = b.inner.data /\ a.inner.port_index = b.inner.port_index

\* PartialEq for MidiSysExEvent: the port, buffer_size() and buffer_ptr().
MidiSysExEvent_eq(a, b) ==
    /\ a.inner.port_index = b.inner.port_index
    /\ a.inner.data.size = b.inner.data.size
    /\ a.inner.data.buffer = b.inner.data.buffer

\* MidiSysExEvent::data: the `size` bytes of memory at `buffer`.
MidiSysExEvent_data(m, e) ==
    [i \in 1..e.inner.data.size |-> m[e.inner.data.buffer + i - 1]]

\* Two MidiEvent values from raw structs.
EqDrawMidi ==
    /\ lhs = NoEvent
    /\ \E h1 \in RawHeaders, h2 \in RawHeaders,
          p1 \in 0..MaxPortIndex, p2 \in 0..MaxPortIndex,
          d1 \in 0..MaxPayload, d2 \in 0..MaxPayload :
        /\ lhs' = MidiEvent_from_raw(RawEvent("clap_event_midi", h1, p1, d1))
        /\ rhs' = MidiEvent_from_raw(RawEvent("clap_event_midi", h2, p2, d2))
    /\ UNCHANGED <<mem, equal>>
    /\ UNCHANGED notEqVars

\* Two Midi2Event values from raw structs.
EqDrawMidi2 ==
    /\ lhs = NoEvent
    /\ \E h1 \in RawHeaders, h2 \in RawHeaders,
          p1 \in 0..MaxPortIndex, p2 \in 0..MaxPortIndex,
          d1 \in 0..MaxPayload, d2 \in 0..MaxPayload :
        /\ lhs' = Midi2Event_from_raw(RawEvent("clap_event_midi2", h1, p1, d1))
        /\ rhs' = Midi2Event_from_raw(RawEvent("clap_event_midi2", h2, p2, d2))
    /\ UNCHANGED <<mem, equal>>
    /\ UNCHANGED notEqVars

\* Two MidiSysExEvent values over slices of the caller's memory.
EqDrawSysEx ==
    /\ lhs = NoEvent
    /\ \E t1 \in 0..MaxTime, t2 \in 0..MaxTime,
          p1 \in 0..MaxPortIndex, p2 \in 0..MaxPortIndex,
          b1 \in Slices, b2 \in Slices :
        /\ lhs' = MidiSysExEvent_new(EventHeader_new("MidiSysExEvent", t1), p1, b1)
        /\ rhs' = MidiSysExEvent_new(EventHeader_new("MidiSysExEvent", t2), p2, b2)
    /\ mem' \in [Addrs -> {0, 1}]
    /\ UNCHANGED equal
    /\ UNCHANGED notEqVars

\* lhs == rhs
EqCompare ==
    /\ lhs # NoEvent
    /\ equal = "none"
    /\ equal' = IF IF lhs.type = "MidiSysExEvent"
                   THEN MidiSysExEvent_eq(lhs, rhs)
                   ELSE MidiEvent_eq(lhs, rhs)
                THEN "true"
                ELSE "false"
    /\ UNCHANGED <<lhs, rhs, mem>>
    /\ UNCHANGED notEqVars

\* Both values go out of scope.
EqForget ==
    /\ lhs # NoEvent
    /\ lhs' = NoEvent
    /\ rhs' = NoEvent
    /\ mem' = [a \in Addrs |-> 0]
    /\ equal' = "none"
    /\ UNCHANGED notEqVars

EqNext ==
    \/ EqDrawMidi
    \/ EqDrawMidi2
    \/ EqDrawSysEx
    \/ EqCompare
    \/ EqForget

EqSpec == Quiet /\ [][EqNext]_allVars

\* --------------------------------------------------------- an event list

\* An append that puts the new event in front.
push_front(l, e) == <<e>> \o l

\* Appending to an output list: the event becomes the last entry.
push_back(l, e) == Append(l, e)

\* Reading an input list by index, from 0: the entry, or nothing past the end.
list_get(l, index) ==
    IF index < Len(l)
    THEN [index |-> index, kind |-> "Some", time |-> l[index + 1].time,
          payload |-> l[index + 1].payload]
    ELSE [index |-> index, kind |-> "None", time |-> 0, payload |-> 0]

\* The plugin appends an event to events.output; its time is not before
\* the time of the last event appended.
ListPush ==
    /\ Len(appended) < MaxLen
    /\ \E t \in 0..MaxTime, d \in 0..MaxPayload :
        LET e == [time |-> t, payload |-> d]
        IN /\ (appended # <<>> => appended[Len(appended)].time <= t)
           /\ list' = push_back(list, e)
           /\ appended' = Append(appended, e)
    /\ got' = NoRead
    /\ UNCHANGED notListVars

\* The list is read by index, as events.input is.
ListGet ==
    /\ \E index \in 0..MaxLen : got' = list_get(list, index)
    /\ UNCHANGED <<list, appended>>
    /\ UNCHANGED notListVars

ListNext ==
    \/ ListPush
    \/ ListGet

ListSpec == Quiet /\ [][ListNext]_allVars

\* ------------------------------------------- the example audio callback

\* The lengths of the interleaved sample slice the device hands over.
SliceLens == {Channels * f : f \in 1..MaxFrames}

\* The frames each channel buffer holds once the buffers match a slice of
\* the given length: the buffers type is outside these sources, so both the
\* slice length and the slice length per channel are allowed.
BufferFrames(len) == {len, len \div Channels}

\* StreamAudioProcessor::process: the plugin is called with steady_counter;
\* on Ok the counter grows by data.len(), on Err the function returns first.
StreamProcess ==
    /\ callbacks < MaxCallbacks
    /\ \E len \in SliceLens, status \in {"Ok", "Err"} :
        \E frames \in BufferFrames(len) :
            /\ heard' = Heard(steady_counter, frames, status)
            /\ handed' = handed + frames
            /\ steady_counter' = IF status = "Ok"
                                 THEN steady_counter + len
                                 ELSE steady_counter
    /\ callbacks' = callbacks + 1
    /\ UNCHANGED notStreamVars

StreamNext ==
    \/ StreamProcess

StreamSpec == Quiet /\ [][StreamNext]_allVars

\* ------------------------------------------------- the extension registry

\* The three partitions of a host type.
Partitions == {"Shared", "MainThread", "AudioProcessor"}

\* The implementation traits followed.
ImplTraits == {"HostStateImplementation", "HostLogImpl", "HostTimerImpl"}

\* The host extensions followed, with the one method of each.
HostExtensionMethods ==
    [HostState |-> "mark_dirty", HostLog |-> "log", HostTimer |-> "register_timer"]

\* A registration that asks nothing of the host type.
Where_nothing(ext) == {}

\* The `where` clause of `impl ExtensionImplementation<H> for` an extension:
\* the trait and the partition type of H that has to provide it.
Where(ext) ==
    CASE ext = "HostState" -> {<<"HostStateImplementation", "MainThread">>}
      [] ext = "HostLog" -> {<<"HostLogImpl", "Shared">>}
      [] ext = "HostTimer" -> {<<"HostTimerImpl", "MainThread">>}

\* The partition the extension's extern "C" function calls into:
\* mark_dirty runs `host.main_thread().as_mut().mark_dirty()`.
Handler(ext) ==
    CASE ext = "HostState" -> "MainThread"
      [] ext = "HostLog" -> "Shared"
      [] ext = "HostTimer" -> "MainThread"

\* PluginInstance::<H>::new: the host type is fixed, with the traits its
\* partition types provide.
ExtHostNew ==
    /\ epc = "none"
    /\ impls' \in SUBSET (ImplTraits \X Partitions)
    /\ epc' = "declaring"
    /\ UNCHANGED <<declared, reached>>
    /\ UNCHANGED notExtVars

\* builder.register::<E>() in declare_extensions: accepted when H meets
\* the `where` clause of E.
ExtRegister ==
    /\ epc = "declaring"
    /\ \E ext \in DOMAIN HostExtensionMethods :
        /\ Where(ext) \subseteq impls
        /\ declared' = declared \cup {ext}
    /\ UNCHANGED <<impls, reached, epc>>
    /\ UNCHANGED notExtVars

\* The instance is built: the plugin can query the declared extensions.
ExtInstantiated ==
    /\ epc = "declaring"
    /\ epc' = "running"
    /\ UNCHANGED <<impls, declared, reached>>
    /\ UNCHANGED notExtVars

\* The plugin calls the method of a declared extension's vtable.
ExtCallback ==
    /\ epc = "running"
    /\ \E ext \in declared :
        reached' = Callback(ext, HostExtensionMethods[ext], Handler(ext))
    /\ UNCHANGED <<impls, declared, epc>>
    /\ UNCHANGED notExtVars

ExtNext ==
    \/ ExtHostNew
    \/ ExtRegister
    \/ ExtInstantiated
    \/ ExtCallback

ExtSpec == Quiet /\ [][ExtNext]_allVars

\* -------------------------------------------------------- the example host

\* The timer periods of the scenario, 30 ms and 50 ms, in units of 10 ms.
Periods == {3, 5}

\* The least number of a set.
MinOf(S) == CHOOSE x \in S : \A y \in S : x <= y

\* Iterator::min over the intervals: None for no timer.
Option_min(S) == IF S = {} THEN None ELSE Some(MinOf(S))

\* Timer::new
Timer_new(id, interval) ==
    [id |-> id, interval |-> interval, last_updated_at |-> None]

\* Timer::tick: whether the timer triggered, and the timer afterwards.
Timer_tick(t, at) ==
    [triggered |-> IF t.last_updated_at.some
                   THEN at - t.last_updated_at.v > t.interval
                   ELSE TRUE,
     timer |-> [t EXCEPT !.last_updated_at = Some(at)]]

\* Timers::tick_all, iterated to its end: the ids triggered, and the struct
\* afterwards.
Timers_tick_all(ts, at) ==
    [triggered |-> {i \in DOMAIN ts.timers : Timer_tick(ts.timers[i], at).triggered},
     timers |-> [ts EXCEPT !.timers =
                     [i \in DOMAIN ts.timers |-> Timer_tick(ts.timers[i], at).timer]]]

\* A register_new that gives the new timer the first id not in use.
Timers_register_new_reusing(ts, interval) ==
    LET id == MinOf({i \in 1..(ts.latest_id + 1) : i \notin DOMAIN ts.timers})
    IN [id |-> id,
        timers |->
            [latest_id |-> IF id > ts.latest_id THEN id ELSE ts.latest_id,
             timers |-> [i \in DOMAIN ts.timers \cup {id} |->
                             IF i = id
                             THEN [id |-> id, interval |-> interval,
                                   last_updated_at |-> None]
                             ELSE ts.timers[i]],
             smallest_duration |->
                 IF ~ts.smallest_duration.some THEN Some(interval)
                 ELSE IF ts.smallest_duration.v > interval THEN Some(interval)
                 ELSE ts.smallest_duration]]

\* Timers::register_new: the id, and the struct afterwards.
Timers_register_new(ts, interval) ==
    LET id == ts.latest_id + 1
    IN [id |-> id,
        timers |->
            [latest_id |-> id,
             timers |-> [i \in DOMAIN ts.timers \cup {id} |->
                             IF i = id THEN Timer_new(id, interval)
                                       ELSE ts.timers[i]],
             smallest_duration |->
                 IF ~ts.smallest_duration.some THEN Some(interval)
                 ELSE IF ts.smallest_duration.v > interval THEN Some(interval)
                 ELSE ts.smallest_duration]]

\* An unregister that keeps the smallest duration it had.
Timers_unregister_stale(ts, id) ==
    IF id \in DOMAIN ts.timers
    THEN [removed |-> TRUE,
          timers |-> [ts EXCEPT
              !.timers = [i \in DOMAIN ts.timers \ {id} |-> ts.timers[i]]]]
    ELSE [removed |-> FALSE, timers |-> ts]

\* An unregister that answers true for any id.
Timers_unregister_lenient(ts, id) ==
    [removed |-> TRUE,
     timers |-> [ts EXCEPT
         !.timers = [i \in DOMAIN ts.timers \ {id} |-> ts.timers[i]],
         !.smallest_duration =
             Option_min({ts.timers[i].interval : i \in DOMAIN ts.timers \ {id}})]]

\* Timers::unregister: whether a timer was removed, and the struct
\* afterwards.
Timers_unregister(ts, id) ==
    IF id \in DOMAIN ts.timers
    THEN LET left == [i \in DOMAIN ts.timers \ {id} |-> ts.timers[i]]
         IN [removed |-> TRUE,
             timers |-> [ts EXCEPT
                 !.timers = left,
                 !.smallest_duration =
                     Option_min({left[i].interval : i \in DOMAIN left})]]
    ELSE [removed |-> FALSE, timers |-> ts]

\* Timers::smallest_duration
Timers_smallest_duration(ts) == ts.smallest_duration

\* PluginSharedHandle::get_extension: absent for an extension the plugin
\* does not support.
get_extension(supported) == supported

\* A host that takes every plugin to have an embedded GUI.
gui_can_float_assumed(c) == "embed"

\* CpalHostMainThread::gui_can_float: None, Some(true) as "float" or
\* Some(false) as "embed".
gui_can_float(c) == c.available_gui_api

\* CpalHostMainThread::tick_timers: the ids on_timer is called with, and
\* the Timers afterwards; without the plugin's timer extension it returns
\* before tick_all.
tick_timers(c, ts, at) ==
    IF ~c.timer_support
    THEN [called |-> {}, timers |-> ts]
    ELSE [called |-> Timers_tick_all(ts, at).triggered,
          timers |-> Timers_tick_all(ts, at).timers]

\* AudioPortsConfig::from_plugin
AudioPortsConfig_from_plugin(audio_ports) ==
    IF ~audio_ports
    THEN [built |-> TRUE, input_channel_counts |-> <<2>>,
          output_channel_counts |-> <<2>>]
    ELSE [built |-> TRUE, input_channel_counts |-> <<>>,
          output_channel_counts |-> <<>>]

\* The messages anything sends to the main thread: request_callback and
\* closed.
Sent == {"RunOnMainThread", "GuiClosed"}

\* The states of `run` inside a UI loop.
Looping == {"floating", "embedded", "cli"}

\* When each timer fired last, after on_timer was called with `called`.
Fired(f, called, at) ==
    [i \in DOMAIN f |-> IF i \in called THEN at ELSE f[i]]

\* PluginInstance::new, with HostShared::instantiated and
\* HostMainThread::instantiated.
CpalInstantiate ==
    /\ ui = "none"
    /\ \E gui \in {"absent", "None", "float", "embed"}, timer \in BOOLEAN,
          audio_ports \in BOOLEAN :
        /\ plug' = Plugin(gui, timer, audio_ports)
        /\ cpal' = [gui |-> get_extension(gui # "absent"),
                    audio_ports |-> get_extension(audio_ports),
                    available_gui_api |->
                        IF get_extension(gui # "absent") THEN gui ELSE "None",
                    timer_support |-> get_extension(timer),
                    gui_open |-> FALSE]
    /\ ui' = "instantiated"
    /\ UNCHANGED <<timers, now, ports, deadline, pending, on_timer, fired>>
    /\ UNCHANGED notCpalVars

\* run: AudioPortsConfig::from_plugin; with the extension, a port the
\* plugin counts but does not describe makes `unwrap` panic.
CpalScanPorts ==
    /\ ui = "instantiated"
    /\ \E described \in BOOLEAN :
        IF cpal.audio_ports /\ ~described
        THEN ui' = "panicked" /\ UNCHANGED ports
        ELSE /\ ui' = "scanned"
             /\ ports' = AudioPortsConfig_from_plugin(cpal.audio_ports)
    /\ UNCHANGED <<plug, cpal, timers, now, deadline, pending, on_timer, fired>>
    /\ UNCHANGED notCpalVars

\* run: the choice of run_ui, activate_to_stream, and the start of the
\* chosen function up to its loop. run_gui_floating creates and shows the
\* GUI; run_gui_embedded opens the embedding window, which unwraps
\* shared.gui; run_cli does nothing first.
CpalRunUi ==
    /\ ui = "scanned"
    /\ \E stream \in {"Ok", "Err"}, created \in {"Ok", "Err"} :
        LET mode == gui_can_float(cpal)
        IN IF stream = "Err"
           THEN ui' = "failed" /\ UNCHANGED <<cpal, deadline>>
           ELSE CASE mode = "None" ->
                       ui' = "cli" /\ UNCHANGED <<cpal, deadline>>
                  [] mode = "float" ->
                       IF ~cpal.gui
                       THEN ui' = "panicked" /\ UNCHANGED <<cpal, deadline>>
                       ELSE /\ ui' = IF created = "Ok" THEN "floating"
                                                       ELSE "failed"
                            /\ UNCHANGED <<cpal, deadline>>
                  [] mode = "embed" ->
                       IF ~cpal.gui
                       THEN ui' = "panicked" /\ UNCHANGED <<cpal, deadline>>
                       ELSE IF created = "Err"
                       THEN ui' = "failed" /\ UNCHANGED <<cpal, deadline>>
                       ELSE /\ ui' = "embedded"
                            /\ cpal' = [cpal EXCEPT !.gui_open = TRUE]
                            /\ deadline' = now
    /\ UNCHANGED <<plug, timers, now, ports, pending, on_timer, fired>>
    /\ UNCHANGED notCpalVars

\* HostTimerImpl::register_timer, called by the plugin on the main thread.
CpalRegisterTimer ==
    /\ ui \in Looping \cup {"scanned"}
    /\ timers.latest_id < MaxIds
    /\ \E period_ms \in Periods :
        LET r == Timers_register_new(timers, period_ms)
        IN /\ timers' = r.timers
           /\ fired' = [i \in DOMAIN fired \cup {r.id} |->
                            IF i = r.id THEN now ELSE fired[i]]
    /\ UNCHANGED <<plug, cpal, now, ui, ports, deadline, pending, on_timer>>
    /\ UNCHANGED notCpalVars

\* HostTimerImpl::unregister_timer, called by the plugin on the main thread.
CpalUnregisterTimer ==
    /\ ui \in Looping \cup {"scanned"}
    /\ \E timer_id \in 1..MaxIds :
        LET r == Timers_unregister(timers, timer_id)
        IN /\ timers' = r.timers
           /\ fired' = [i \in DOMAIN r.timers.timers |-> fired[i]]
    /\ UNCHANGED <<plug, cpal, now, ui, ports, deadline, pending, on_timer>>
    /\ UNCHANGED notCpalVars

\* 10 ms pass in a UI loop; the clock starts with the loop. The embedded
\* event loop sleeps no longer than the timeout it set; the loops over the
\* receiver sleep until a message comes.
CpalAdvance ==
    /\ ui \in Looping
    /\ now < MaxNow
    /\ ui = "embedded" => now < deadline
    /\ now' = now + 1
    /\ UNCHANGED <<plug, cpal, timers, ui, ports, deadline, pending, on_timer, fired>>
    /\ UNCHANGED notCpalVars

\* run_gui_floating: one turn of `for message in receiver`, and the end of
\* the function after `break`.
CpalFloatingMessage ==
    /\ ui = "floating"
    /\ \E message \in Sent :
        CASE message = "Tick" ->
               LET t == tick_timers(cpal, timers, now)
               IN /\ timers' = t.timers
                  /\ on_timer' = on_timer \cup t.called
                  /\ fired' = Fired(fired, t.called, now)
                  /\ UNCHANGED <<ui, cpal>>
          [] message = "GuiClosed" ->
               /\ ui' = "exited"
               /\ cpal' = [cpal EXCEPT !.gui_open = FALSE]
               /\ UNCHANGED <<timers, on_timer, fired>>
          [] OTHER -> UNCHANGED <<ui, cpal, timers, on_timer, fired>>
    /\ UNCHANGED <<plug, now, ports, deadline, pending>>
    /\ UNCHANGED notCpalVars

\* run_gui_embedded: one call of the event loop's closure, for an event
\* that is not a close: the messages are drained, the timers ticked, and
\* the wait set to smallest_duration() or 60 ms.
CpalEmbeddedEvent ==
    /\ ui = "embedded"
    /\ LET t == tick_timers(cpal, timers, now)
           d == Timers_smallest_duration(t.timers)
       IN /\ timers' = t.timers
          /\ on_timer' = on_timer \cup t.called
          /\ fired' = Fired(fired, t.called, now)
          /\ pending' = d
          /\ deadline' = now + (IF d.some THEN d.v ELSE DefaultWait)
    /\ UNCHANGED <<plug, cpal, now, ui, ports>>
    /\ UNCHANGED notCpalVars

\* run_gui_embedded: the closure for CloseRequested or Destroyed, which
\* destroys the GUI and returns before the timers.
CpalEmbeddedClose ==
    /\ ui = "embedded"
    /\ cpal' = [cpal EXCEPT !.gui_open = FALSE]
    /\ ui' = "exited"
    /\ UNCHANGED <<plug, timers, now, ports, deadline, pending, on_timer, fired>>
    /\ UNCHANGED notCpalVars

\* run_cli: one turn of `for message in receiver`.
CpalCliMessage ==
    /\ ui = "cli"
    /\ \E message \in Sent :
        UNCHANGED <<plug, cpal, timers, now, ui, ports, deadline, pending,
                    on_timer, fired>>
    /\ UNCHANGED notCpalVars

CpalNext ==
    \/ CpalInstantiate
    \/ CpalScanPorts
    \/ CpalRunUi
    \/ CpalRegisterTimer
    \/ CpalUnregisterTimer
    \/ CpalAdvance
    \/ CpalFloatingMessage
    \/ CpalEmbeddedEvent
    \/ CpalEmbeddedClose
    \/ CpalCliMessage

CpalSpec == Quiet /\ [][CpalNext]_allVars

\* ------------------------------------------------ the Timers on their own

\* HostTimerImpl::register_timer: Ok with the id of Timers::register_new.
TimerRegister ==
    /\ timers.latest_id < MaxIds
    /\ \E period_ms \in Periods :
        LET r == Timers_register_new(timers, period_ms)
        IN /\ timers' = r.timers
           /\ fired' = [i \in DOMAIN fired \cup {r.id} |->
                            IF i = r.id THEN now ELSE fired[i]]
           /\ answer' = Answer("register", r.id, TRUE)
    /\ UNCHANGED now
    /\ UNCHANGED notTimersVars

\* HostTimerImpl::unregister_timer: Ok if Timers::unregister removed a
\* timer, Err(TimerError::UnregisterError) if not.
TimerUnregister ==
    /\ \E timer_id \in 1..MaxIds :
        LET r == Timers_unregister(timers, timer_id)
        IN /\ timers' = r.timers
           /\ fired' = [i \in DOMAIN r.timers.timers |-> fired[i]]
           /\ answer' = Answer("unregister", timer_id, r.removed)
    /\ UNCHANGED now
    /\ UNCHANGED notTimersVars

\* Timers::tick_all, iterated to its end.
TimerTick ==
    /\ LET t == Timers_tick_all(timers, now)
       IN /\ timers' = t.timers
          /\ fired' = Fired(fired, t.triggered, now)
          /\ answer' = Answer("tick", 0, t.triggered # {})
    /\ UNCHANGED now
    /\ UNCHANGED notTimersVars

\* 10 ms pass.
TimerAdvance ==
    /\ now < MaxNow
    /\ now' = now + 1
    /\ UNCHANGED <<timers, fired, answer>>
    /\ UNCHANGED notTimersVars

TimerNext ==
    \/ TimerRegister
    \/ TimerUnregister
    \/ TimerTick
    \/ TimerAdvance

TimerSpec == Quiet /\ [][TimerNext]_allVars

\* ------------------------------------------- the UI loops and the channel

\* A request_callback that sends nothing.
request_callback_unsent(ch, n, from) == ch

\* HostShared::request_callback: one RunOnMainThread message is sent; the
\* channel is unbounded and keeps the order of sending.
request_callback(ch, n, from) == Append(ch, Message("RunOnMainThread", n, from))

\* HostGuiImpl::closed: one GuiClosed message is sent.
closed(ch, from) == Append(ch, Message("GuiClosed", 0, from))

\* instance.call_on_main_thread_callback(), for each RunOnMainThread among
\* the messages received, in the order received, on the thread of the loop.
Callbacks(done, received) ==
    done \o [i \in 1..Len(SelectSeq(received, LAMBDA m : m.kind = "RunOnMainThread")) |->
                [n |-> SelectSeq(received, LAMBDA m : m.kind = "RunOnMainThread")[i].n,
                 from |-> SelectSeq(received, LAMBDA m : m.kind = "RunOnMainThread")[i].from,
                 on |-> "main"]]

\* CpalHostMainThread::destroy_gui: nothing unless gui_open is set.
destroy_gui(g) ==
    IF ~g.gui_open
    THEN g
    ELSE [g EXCEPT !.destroyed = @ + 1, !.gui_open = FALSE]

\* The UI loops in which messages are received.
Receiving == {"floating", "embedded", "cli"}

\* run: run_ui is chosen and runs up to its loop. run_gui_floating calls
\* gui.create and gui.show and leaves gui_open alone; run_gui_embedded
\* calls open_embedding_window, which sets gui_open after create, the
\* window, set_parent and show; each `?` can return early.
LoopRun ==
    /\ loop = "none"
    /\ \E run_ui \in Receiving, create \in {"Ok", "Err"}, rest \in {"Ok", "Err"} :
        CASE run_ui = "cli" ->
               /\ loop' = "cli"
               /\ UNCHANGED pgui
          [] run_ui = "floating" ->
               /\ loop' = IF create = "Ok" /\ rest = "Ok" THEN "floating"
                                                          ELSE "failed"
               /\ pgui' = IF create = "Ok"
                          THEN [pgui EXCEPT !.created = @ + 1]
                          ELSE pgui
          [] run_ui = "embedded" ->
               /\ loop' = IF create = "Ok" /\ rest = "Ok" THEN "embedded"
                                                          ELSE "failed"
               /\ pgui' = IF create = "Ok"
                          THEN [pgui EXCEPT !.created = @ + 1,
                                            !.gui_open = (rest = "Ok")]
                          ELSE pgui
    /\ UNCHANGED <<channel, requests, ran>>
    /\ UNCHANGED notLoopVars

\* The plugin calls request_callback on one of its threads; once the
\* function holding the receiver has returned, `send(..).unwrap()` panics.
LoopRequestCallback ==
    /\ requests < MaxRequests
    /\ Len(channel) < MaxQueue
    /\ loop # "panicked"
    /\ \E from \in Threads :
        IF loop \in {"exited", "failed"}
        THEN /\ loop' = "panicked"
             /\ UNCHANGED <<channel, requests>>
        ELSE /\ channel' = request_callback(channel, requests + 1, from)
             /\ requests' = requests + 1
             /\ UNCHANGED loop
    /\ UNCHANGED <<ran, pgui>>
    /\ UNCHANGED notLoopVars

\* The plugin tells the host its floating window was closed.
LoopClosed ==
    /\ loop \in Receiving
    /\ pgui.created > pgui.destroyed
    /\ Len(channel) < MaxQueue
    /\ \E from \in Threads : channel' = closed(channel, from)
    /\ UNCHANGED <<loop, requests, ran, pgui>>
    /\ UNCHANGED notLoopVars

\* run_gui_floating: one turn of `for message in receiver`; GuiClosed
\* breaks, destroy_gui is called and the function returns.
LoopFloatingTurn ==
    /\ loop = "floating"
    /\ channel # <<>>
    /\ channel' = Tail(channel)
    /\ IF Head(channel).kind = "GuiClosed"
       THEN /\ pgui' = destroy_gui(pgui)
            /\ loop' = "exited"
            /\ UNCHANGED ran
       ELSE /\ ran' = Callbacks(ran, <<Head(channel)>>)
            /\ UNCHANGED <<loop, pgui>>
    /\ UNCHANGED requests
    /\ UNCHANGED notLoopVars

\* run_gui_embedded: the closure called for an event that is no close and
\* not the end: every message waiting is received. No timer is registered
\* here, so tick_timers has nothing to tick.
LoopEmbeddedEvent ==
    /\ loop = "embedded"
    /\ ran' = Callbacks(ran, channel)
    /\ channel' = <<>>
    /\ UNCHANGED <<loop, requests, pgui>>
    /\ UNCHANGED notLoopVars

\* run_gui_embedded: the closure called for CloseRequested or Destroyed:
\* the messages are received, the GUI destroyed and the loop told to exit.
LoopEmbeddedClose ==
    /\ loop = "embedded"
    /\ ran' = Callbacks(ran, channel)
    /\ channel' = <<>>
    /\ pgui' = destroy_gui(pgui)
    /\ loop' = "closing"
    /\ UNCHANGED requests
    /\ UNCHANGED notLoopVars

\* run_gui_embedded: the closure called for LoopDestroyed, the last event.
LoopEmbeddedDestroyed ==
    /\ loop = "closing"
    /\ ran' = Callbacks(ran, channel)
    /\ channel' = <<>>
    /\ pgui' = destroy_gui(pgui)
    /\ loop' = "exited"
    /\ UNCHANGED requests
    /\ UNCHANGED notLoopVars

\* run_cli: one turn of `for message in receiver`.
LoopCliTurn ==
    /\ loop = "cli"
    /\ channel # <<>>
    /\ channel' = Tail(channel)
    /\ ran' = Callbacks(ran, <<Head(channel)>>)
    /\ UNCHANGED <<loop, requests, pgui>>
    /\ UNCHANGED notLoopVars

LoopNext ==
    \/ LoopRun
    \/ LoopRequestCallback
    \/ LoopClosed
    \/ LoopFloatingTurn
    \/ LoopEmbeddedEvent
    \/ LoopEmbeddedClose
    \/ LoopEmbeddedDestroyed
    \/ LoopCliTurn

LoopSpec == Quiet /\ [][LoopNext]_allVars

\* The loops keep turning: a loop over the receiver wakes when a message
\* waits, and the embedded event loop wakes at the latest when its wait
\* runs out.
LoopFairSpec ==
    /\ LoopSpec
    /\ WF_allVars(LoopFloatingTurn)
    /\ WF_allVars(LoopEmbeddedEvent)
    /\ WF_allVars(LoopCliTurn)

\* ------------------------------------------------ a sysex event's buffer

\* The caller's memory: every cell holds a byte of its own.
Cells == [a \in 0..(MaxBuffer + 2) |-> a]

\* The slices `&[u8]` a sysex event is made from, some longer than the
\* size field can say.
LongSlices == [ptr : 0..1, len : 0..MaxBuffer]

\* MidiSysExEvent::buffer_size
MidiSysExEvent_buffer_size(e) == e.inner.data.size

\* MidiSysExEvent::new over a slice of the caller's memory.
SysExNew ==
    /\ \E t \in 0..MaxTime, p \in 0..MaxPortIndex, b \in LongSlices :
        /\ sysex' = MidiSysExEvent_new(EventHeader_new("MidiSysExEvent", t), p, b)
        /\ given' = b
    /\ bytes' = Bytes("none", 0, <<>>)
    /\ UNCHANGED notSysExVars

\* MidiSysExEvent::set_port_index
SysExSetPortIndex ==
    /\ sysex # NoEvent
    /\ \E p \in 0..MaxPortIndex : sysex' = set_port_index(sysex, p)
    /\ UNCHANGED <<given, bytes>>
    /\ UNCHANGED notSysExVars

\* MidiSysExEvent::buffer_size
SysExBufferSize ==
    /\ sysex # NoEvent
    /\ bytes' = Bytes("buffer_size", MidiSysExEvent_buffer_size(sysex), <<>>)
    /\ UNCHANGED <<sysex, given>>
    /\ UNCHANGED notSysExVars

\* MidiSysExEvent::data, while the buffer lives.
SysExData ==
    /\ sysex # NoEvent
    /\ bytes' = Bytes("data", 0, MidiSysExEvent_data(Cells, sysex))
    /\ UNCHANGED <<sysex, given>>
    /\ UNCHANGED notSysExVars

SysExNext ==
    \/ SysExNew
    \/ SysExSetPortIndex
    \/ SysExBufferSize
    \/ SysExData

SysExSpec == Quiet /\ [][SysExNext]_allVars

\* ----------------------------------------------------------------- claims

\* The calls that may move the slot.
TransitionOps ==
    {"start_processing", "stop_processing",
     "ensure_processing_started", "ensure_processing_stopped"}

\* The calls that report the slot's state as a Result.
StateViewOps == {"as_started", "as_started_mut", "as_stopped", "as_stopped_mut"}

\* The state a successful transition leads to.
Target(op, pre) ==
    IF op \in {"start_processing", "ensure_processing_started"}
    THEN Started(pre.inner)
    ELSE Stopped(pre.inner)

\* C1: when the plugin refuses to start, the typed start_processing hands the
\* original stopped handle back inside ProcessingStartError, and the enum's
\* start_processing returns StartProcessingFailed with the slot Stopped and
\* holding the same instance as before the call.
C1_StartFailureKeepsStopped ==
    (call.op = "start_processing" /\ call.entry = "start" /\ call.outcome = "err") =>
        /\ call.pre.tag = "Stopped"
        /\ into_stopped_processor(Stopped_start_processing(call.pre, "err")) = call.pre
        /\ call.res = RetErr("StartProcessingFailed")
        /\ processor.tag = "Stopped"
        /\ processor.inner = call.pre.inner
        /\ processor.inner \in Instances

\* C1 witness: a start_processing call the plugin refused.
C1_Witness ==
    /\ call.op = "start_processing"
    /\ call.outcome = "err"
    /\ call.pre.tag = "Stopped"
    /\ plugin.starts >= 1

\* C2: stop_processing on a Started slot, whenever it returns, returns Ok
\* with the stopped handle, has gone through the plugin's stop entry point,
\* and leaves the slot Stopped on the same instance, whatever came before.
C2_StopFromStartedSucceeds ==
    (call.op = "stop_processing" /\ call.pre.tag = "Started"
        /\ call.res.kind # "Panic") =>
        /\ call.res = RetOk(Stopped(call.pre.inner))
        /\ call.entry = "stop"
        /\ plugin.stops >= 1
        /\ ~plugin.processing
        /\ processor = Stopped(call.pre.inner)

\* C2 witness: a stop_processing on a Started slot that returned, after a
\* stop/start cycle had already taken place.
C2_Witness ==
    /\ call.op = "stop_processing"
    /\ call.pre.tag = "Started"
    /\ call.res.kind = "Ok"
    /\ plugin.stops = 2

\* C3: a transition that returns from a non-poisoned slot leaves the slot
\* either in the requested state (Ok, and the handle returned is the slot's)
\* or exactly as it was (Err); the Poisoned placeholder is never what the
\* caller finds after a normal return.
C3_TransitionsAtomic ==
    (call.op \in TransitionOps /\ call.pre.tag # "Poisoned"
        /\ call.res.kind # "Panic") =>
        /\ processor.tag # "Poisoned"
        /\ call.res.kind = "Ok" =>
              /\ processor = Target(call.op, call.pre)
              /\ call.res.handle = processor
        /\ call.res.kind = "Err" => processor = call.pre

\* C3 witness: a transition that failed and left a Started slot as it was.
C3_Witness ==
    /\ call.op \in TransitionOps
    /\ call.res.kind = "Err"
    /\ call.pre.tag = "Started"
    /\ processor = call.pre

\* C4: a panic of the plugin call inside a transition leaves the slot
\* Poisoned, and a slot only ever becomes Poisoned that way: no call that
\* returns normally moves a Started or Stopped slot to Poisoned.
C4_PoisonedOnlyByPanic ==
    [][/\ (call'.op \in TransitionOps /\ call'.res.kind = "Panic") =>
              processor' = Poisoned
       /\ (processor.tag # "Poisoned" /\ processor'.tag = "Poisoned") =>
              /\ call'.op \in TransitionOps
              /\ call'.res.kind = "Panic"
              /\ call'.entry \in {"start", "stop"}]_vars

\* C4 witness: a Started slot poisoned by a panic inside stop_processing.
C4_Witness ==
    /\ processor = Poisoned
    /\ call.op = "stop_processing"
    /\ call.pre.tag = "Started"
    /\ call.res.kind = "Panic"

\* C5: on a Poisoned slot the four transitions and the four state views
\* return ProcessorHandlePoisoned, go through no plugin entry point, and
\* leave the slot Poisoned.
C5_PoisonedFailsFast ==
    [][(processor = Poisoned /\ ops' = ops + 1
            /\ call'.op \in TransitionOps \cup StateViewOps) =>
          /\ call'.res = RetErr("ProcessorHandlePoisoned")
          /\ call'.entry = "none"
          /\ plugin' = plugin
          /\ processor' = Poisoned]_vars

\* C5 witness: as_stopped answered on a slot that was already Poisoned.
C5_Witness ==
    /\ call.op = "as_stopped"
    /\ call.pre = Poisoned
    /\ processor = Poisoned
\* The accessors whose return type is a plain reference or bool.
HostDataOps ==
    {"shared_host_data", "audio_processor_host_data",
     "audio_processor_host_data_mut"}

C7_FailedProcessKeepsStarted ==
    [][(call'.op = "process" /\ ops' = ops + 1 /\ processor.tag = "Started") =>
          /\ processor' = processor
          /\ as_started_mut(processor').kind = "Ok"
          /\ ~plugin.has_process =>
                /\ call'.res = RetErr("NullProcessFunction")
                /\ plugin' = plugin
          /\ (plugin.has_process /\ call'.outcome \in {"Err", "None"}) =>
                call'.res = RetErr("ProcessingFailed")
          /\ (call.op = "process" /\ call.res.kind = "Err") =>
                call'.res.err \notin {"ProcessingStopped", "ProcessorHandlePoisoned"}]_vars

\* C7 witness: a process call the plugin failed, on a slot that had
\* already processed once and is still Started.
C7_Witness ==
    /\ call.op = "process"
    /\ call.res = RetErr("ProcessingFailed")
    /\ call.pre.tag = "Started"
    /\ plugin.processes = 2
    /\ processor.tag = "Started"

\* C8: start_processing on a Started slot returns ProcessingStarted and
\* stop_processing on a Stopped slot returns ProcessingStopped; neither goes
\* through a plugin entry point nor changes the slot or its instance, and
\* from the slot they leave the operation goes through once the slot is in
\* the state it needs.
C8_WrongStateRejected ==
    [][/\ (call'.op = "start_processing" /\ ops' = ops + 1
              /\ processor.tag = "Started") =>
              /\ call'.res = RetErr("ProcessingStarted")
              /\ call'.entry = "none"
              /\ plugin' = plugin
              /\ processor' = processor
              /\ LET after == stop_processing(processor', "ok").self
                 IN start_processing(after, "ok").res = RetOk(processor)
       /\ (call'.op = "stop_processing" /\ ops' = ops + 1
              /\ processor.tag = "Stopped") =>
              /\ call'.res = RetErr("ProcessingStopped")
              /\ call'.entry = "none"
              /\ plugin' = plugin
              /\ processor' = processor
              /\ LET after == start_processing(processor', "ok").self
                 IN stop_processing(after, "ok").res = RetOk(processor)]_vars

\* C8 witness: start_processing refused on a Started slot, which it left
\* Started.
C8_Witness ==
    /\ call.op = "start_processing"
    /\ call.res = RetErr("ProcessingStarted")
    /\ processor.tag = "Started"

\* C9: asking a Stopped slot for the started processor (as_started,
\* as_started_mut, and process through it) returns ProcessingStopped; the
\* plugin's process entry point is not called, neither the output audio
\* buffer nor the output events are written, and the slot stays Stopped.
C9_NoProcessWhileStopped ==
    [][(processor.tag = "Stopped" /\ ops' = ops + 1
            /\ call'.op \in {"as_started", "as_started_mut", "process"}) =>
          /\ call'.res = RetErr("ProcessingStopped")
          /\ call'.entry = "none"
          /\ plugin' = plugin
          /\ outputs' = outputs
          /\ record' = record
          /\ processor' = processor]_vars

\* C9 witness: process asked of a slot that was stopped after having
\* processed, the outputs still as the last accepted call left them.
C9_Witness ==
    /\ call.op = "process"
    /\ call.pre.tag = "Stopped"
    /\ call.res = RetErr("ProcessingStopped")
    /\ plugin.processes = 1
    /\ outputs.audio # Untouched

\* The ensure_* helpers.
EnsureOps == {"ensure_processing_started", "ensure_processing_stopped"}

\* The state an ensure_* helper asks for.
Requested(op) ==
    IF op = "ensure_processing_started" THEN "Started" ELSE "Stopped"

\* C10 as stated: calling the same ensure_* helper twice in a row leaves the
\* state, and the number of plugin start and stop calls, that one call left.
C10_EnsureTwiceSameAsOnce ==
    [][(call.op \in EnsureOps /\ call'.op = call.op /\ ops' = ops + 1
            /\ call.res.kind # "Panic" /\ call'.res.kind # "Panic") =>
          /\ processor' = processor
          /\ plugin'.starts = plugin.starts
          /\ plugin'.stops = plugin.stops]_vars

\* C10 amended: an ensure_* helper called on a slot already in the requested
\* state returns Ok with that handle, calls no plugin entry point and
\* changes nothing; called on a slot in the other state it makes exactly one
\* call of the matching plugin entry point; and calling it again right after
\* it returned Ok changes neither the state nor the number of plugin calls.
\* (After a refused start, ensure_processing_started calls the plugin again.)
C10_EnsureIdempotentAfterOk ==
    [][(call'.op \in EnsureOps /\ ops' = ops + 1) =>
          /\ processor.tag = Requested(call'.op) =>
                /\ call'.res = RetOk(processor)
                /\ call'.entry = "none"
                /\ plugin' = plugin
                /\ processor' = processor
          /\ processor.tag \notin {Requested(call'.op), "Poisoned"} =>
                /\ plugin'.starts + plugin'.stops = plugin.starts + plugin.stops + 1
                /\ call'.entry = (IF call'.op = "ensure_processing_started"
                                  THEN "start" ELSE "stop")
                /\ call'.res.kind = "Ok" => processor' = Target(call'.op, processor)
          /\ (call.op = call'.op /\ call.res.kind = "Ok") =>
                /\ processor' = processor
                /\ plugin' = plugin
                /\ call'.res = call.res]_vars

\* C10 witness: ensure_processing_started answered Ok on a slot that was
\* already Started, the plugin having been started once only.
C10_Witness ==
    /\ call.op = "ensure_processing_started"
    /\ call.pre.tag = "Started"
    /\ call.res.kind = "Ok"
    /\ plugin.starts = 1
    /\ ops = 2

\* C11: a start_processing that succeeded, followed at once by
\* stop_processing, gives back a Stopped handle on the instance the original
\* Stopped handle referred to, through which the shared and audio-processor
\* host data are reachable as before; the round trip can be repeated.
C11_RoundTripSameInstance ==
    [][(call.op = "start_processing" /\ call.res.kind = "Ok"
            /\ call'.op = "stop_processing" /\ ops' = ops + 1
            /\ call'.res.kind # "Panic") =>
          /\ call.pre.tag = "Stopped"
          /\ processor' = call.pre
          /\ call'.res = RetOk(call.pre)
          /\ processor'.inner \in Instances
          /\ shared_host_data(processor') = shared_host_data(call.pre)
          /\ shared_host_data(processor').res.kind = "Ok"
          /\ audio_processor_host_data(processor') = audio_processor_host_data(call.pre)
          /\ audio_processor_host_data(processor').res.kind = "Ok"]_vars

\* C11 witness: the second start/stop round trip in a row has completed.
C11_Witness ==
    /\ call.op = "stop_processing"
    /\ call.res.kind = "Ok"
    /\ processor.tag = "Stopped"
    /\ plugin.starts = 2
    /\ plugin.stops = 2
    /\ ops = 4

\* C12: the plugin's process entry point is only called while processing is
\* active: the last start/stop call the instance received was a start that
\* succeeded, and the slot is Started; an instance never started, or
\* stopped since, receives no process call.
C12_ProcessOnlyWhileStarted ==
    [][/\ (plugin'.processes # plugin.processes) =>
              /\ plugin.processing
              /\ plugin.starts >= 1
              /\ processor.tag = "Started"
              /\ call'.op = "process"
       /\ (processor'.tag = "Started") => plugin'.processing
       /\ (~plugin'.processing) => processor'.tag \in {"Stopped", "Poisoned"}]_vars

\* C12 witness: a process call reached the plugin after the instance had been
\* stopped once and started again.
C12_Witness ==
    /\ call.op = "process"
    /\ call.entry = "process"
    /\ plugin.processes = 1
    /\ plugin.stops = 1
    /\ plugin.processing

\* The lengths and the cap the frame count of a call is the minimum of.
Candidates(a) ==
    {a.min_in, a.min_out}
        \cup (IF a.max_frame_count = NoCap THEN {} ELSE {a.max_frame_count})

\* C13: the frame count written into the process record is the minimum of
\* the shortest input channel, the shortest output channel and, when one is
\* supplied, max_frame_count: it is one of them and none of them is below
\* it. For 32 input frames, 64 output frames and a cap of 16 it is 16, and
\* with no cap it is 32.
C13_FrameCountIsMinimum ==
    args # NoArgs =>
        /\ record.frames_count \in Candidates(args)
        /\ \A x \in Candidates(args) : record.frames_count <= x
        /\ (args.min_in = 32 /\ args.min_out = 64 /\ args.max_frame_count = 16)
               => record.frames_count = 16
        /\ (args.min_in = 32 /\ args.min_out = 64 /\ args.max_frame_count = NoCap)
               => record.frames_count = 32

C13_Witness ==
    /\ args.min_in = 32
    /\ args.min_out = 64
    /\ args.max_frame_count = 16
    /\ record.frames_count = 16
    /\ seen = Seen("frames_count", 16)

\* The port views held by something the plugin obtained from its Audio.
PortsOf(v) ==
    IF v.kind = "PortPair"
    THEN {p \in {v.input, v.output} : p.kind # "None"}
    ELSE IF v.kind = "None" THEN {} ELSE {v}

\* C14: within one process call every port view the plugin obtains from
\* Audio::input, Audio::output or port_pairs has the frame count of the
\* record the host built for the call, which is also what
\* Process::frames_count returns.
C14_PortsShareRecordFrameCount ==
    /\ args # NoArgs =>
           /\ audio.frames_count = record.frames_count
           /\ record.frames_count = frames_count(args.min_in, args.min_out,
                                                 args.max_frame_count)
    /\ seen.what = "port" =>
           /\ \A p \in PortsOf(seen.value) : p.frames_count = record.frames_count
           /\ seen.value.kind = "PortPair"
                  => seen.value.frames_count = record.frames_count
    /\ seen.what = "frames_count" => seen.value = record.frames_count

C14_Witness ==
    /\ seen.what = "port"
    /\ seen.value.kind = "PortPair"
    /\ seen.value.input.kind = "InputPort"
    /\ seen.value.output.kind = "OutputPort"
    /\ seen.value.input.frames_count = 2
    /\ seen.value.output.frames_count = 2
    /\ args.min_in = 2
    /\ args.min_out = 16
    /\ args.inputs = 1

\* C15: the steady_time the plugin reads from Process::steady_time is the
\* steady_time argument the host passed to process, negative values
\* included.
C15_SteadyTimeVerbatim ==
    /\ args # NoArgs => record.steady_time = args.steady_time
    /\ seen.what = "steady_time" => seen.value = args.steady_time

C15_Witness ==
    /\ seen.what = "steady_time"
    /\ args.steady_time < 0
    /\ seen.value = args.steady_time

\* The handle objects that give access to the instance right now.
AccessingHandles ==
    {h \in {"started", "stopped"} :
        \/ h = "started" /\ started.live /\ started.inner # NoInstance
        \/ h = "stopped" /\ stopped.live}

\* C16: at every point of any sequence of start, stop and drop, at most one
\* handle object gives access to the instance; from the first statement of
\* stop_processing on, the started handle holds no reference, so when the
\* stopped handle comes to exist the two do not both hold it.
C16_AtMostOneHandleHolds ==
    /\ Cardinality(AccessingHandles) <= 1
    /\ hpc \in {"stop_taken", "stop_stopped", "stop_wrapped"}
           => started.live /\ started.inner = NoInstance
    /\ hpc \in {"stop_taken", "stop_stopped"} => ~stopped.live /\ moved # NoInstance
    /\ hpc = "stop_wrapped" => stopped.live /\ moved = NoInstance

C16_Witness ==
    /\ hpc = "stop_wrapped"
    /\ started.live
    /\ stopped.live
    /\ stopped.inner \in Instances
    /\ inst.starts = 2
    /\ inst.processes = 1

\* What still refers to the instance: the PluginInstance, the handle
\* objects, and a reference on its way from one to the other.
Referrers ==
    {h \in {"instance", "started", "stopped", "moved"} :
        \/ h = "instance" /\ instance
        \/ h \in AccessingHandles
        \/ h = "moved" /\ moved # NoInstance}

\* C18: the instance is destroyed only once nothing refers to it any more
\* and it has been deactivated; while a handle or the PluginInstance refers
\* to it, it is active and not destroyed. In particular a started handle
\* that outlives the PluginInstance still drives an active instance.
C18_DestroyedAfterLastHandle ==
    /\ inst.destroyed => Referrers = {} /\ ~inst.active /\ ~inst.processing
    /\ Referrers # {} => inst.active /\ ~inst.destroyed
    /\ (~instance /\ "started" \in AccessingHandles)
           => inst.active /\ ~inst.destroyed

C18_Witness ==
    /\ ~instance
    /\ "started" \in AccessingHandles
    /\ hpc = "idle"
    /\ inst.processes = 2
    /\ inst.processing
    /\ inst.active

\* C17: no handle is shared between threads, so in every interleaving of
\* the main thread and the audio thread at most one thread at a time is
\* inside an access to the audio-processor data through a handle, and that
\* thread is the one owning the handle.
C17_OneThreadAtATime ==
    /\ Cardinality(Accessors) <= 1
    /\ Accessors \subseteq {holder}

C17_Witness ==
    /\ holder = "audio"
    /\ held = "Started"
    /\ accessing["audio"] = "mut"
    /\ accessing["main"] = "none"
    /\ refused = 1

\* The constructors a caller can use without `unsafe`.
SafeCtors == {"new", "from_raw"}

\* C19: for MidiEvent, MidiSysExEvent and Midi2Event, widening an event
\* constructed as T to UnknownEvent and downcasting it to T gives back the
\* original payload, and downcasting it to any other of the three types
\* gives nothing.
C19_DowncastRoundTrip ==
    (ctor \in SafeCtors /\ cast.to \in EventTypes) =>
        IF cast.to = event.type
        THEN cast.kind = "Some" /\ cast.type = event.type /\ cast.inner = event.inner
        ELSE cast.kind = "None"

\* C20: every MidiEvent, MidiSysExEvent or Midi2Event obtained from the safe
\* constructors (new, from_raw) and the setters carries its type's TYPE_ID
\* and the core space id in its header.
C20_HeaderFixedByType ==
    (ctor \in SafeCtors /\ event.type \in EventTypes) =>
        /\ event.inner.header.type_id = TYPE_ID(event.type)
        /\ event.inner.header.space_id = CLAP_CORE_EVENT_SPACE_ID

\* C21: two MidiEvent values, and two Midi2Event values, compare equal
\* exactly when their port_index and their data are equal, whatever their
\* headers hold.
C21_MidiEqualityIsPortAndData ==
    (equal # "none" /\ lhs.type \in {"MidiEvent", "Midi2Event"}) =>
        (equal = "true" <=> /\ lhs.inner.port_index = rhs.inner.port_index
                            /\ lhs.inner.data = rhs.inner.data)

C21_Witness ==
    /\ equal = "true"
    /\ lhs.type = "Midi2Event"
    /\ lhs.inner.header.time # rhs.inner.header.time
    /\ lhs.inner.header.type_id # rhs.inner.header.type_id
    /\ lhs.inner.port_index = 1

\* C22: two MidiSysExEvent values compare equal when they have the same
\* port and the same payload bytes, wherever their buffers lie and whatever
\* their headers hold, and compare unequal when their payload bytes differ.
C22_SysExEqualityIsPortAndBytes ==
    (equal # "none" /\ lhs.type = "MidiSysExEvent") =>
        /\ (/\ lhs.inner.port_index = rhs.inner.port_index
            /\ MidiSysExEvent_data(mem, lhs) = MidiSysExEvent_data(mem, rhs))
               => equal = "true"
        /\ MidiSysExEvent_data(mem, lhs) # MidiSysExEvent_data(mem, rhs)
               => equal = "false"

\* C23: for an event list built by appends with non-decreasing times,
\* reading by index gives the events in the order of the appends, the
\* length is the number of appends, the times read are non-decreasing, and
\* an append changes none of the entries already there.
C23_ListKeepsAppendOrder ==
    [][/\ Len(list') = Len(appended')
       /\ \A i \in 1..Len(appended') : list'[i] = appended'[i]
       /\ \A i \in 1..Len(list), j \in 1..Len(list) :
              i <= j => list[i].time <= list[j].time
       /\ \A i \in 1..Len(list) : list'[i] = list[i]
       /\ got'.kind = "Some" =>
              /\ got'.index < Len(appended')
              /\ got'.time = appended'[got'.index + 1].time
              /\ got'.payload = appended'[got'.index + 1].payload
       /\ got'.kind = "None" => got'.index >= Len(appended')]_allVars

C23_Witness ==
    /\ Len(list) = 3
    /\ list[1].time < list[3].time
    /\ list[1].payload # list[2].payload
    /\ got.kind = "Some"
    /\ got.index = 2
    /\ got.payload = list[3].payload

\* The calls the plugin took: the refused starts left out.
Taken == SelectSeq(inst.calls, LAMBDA c : c # "refused")

\* The number of entries of a sequence that are the given call.
Count(calls, what) == Cardinality({i \in 1..Len(calls) : calls[i] = what})

\* C30 as stated: every call the plugin receives, refused starts included,
\* alternates between start-processing and stop-processing, beginning with
\* a start.
C30_EveryCallAlternates ==
    \A i \in 1..Len(inst.calls) :
        IF i % 2 = 1 THEN inst.calls[i] \in {"start", "refused"}
                     ELSE inst.calls[i] = "stop"

\* C30 amended: the starts the plugin accepted and the stops alternate,
\* beginning with a start; a refused start may come before any start. Every
\* accepted start has exactly one stop once its started handle is gone: by
\* stop_processing, after which Drop finds no reference and does not stop
\* again, or by Drop of a handle that was never stopped.
C30_AcceptedStartsAndStopsAlternate ==
    /\ \A i \in 1..Len(Taken) :
           Taken[i] = (IF i % 2 = 1 THEN "start" ELSE "stop")
    /\ inst.processing <=> Len(Taken) % 2 = 1
    /\ (hpc = "idle" /\ ~started.live) =>
           Count(inst.calls, "stop") = Count(inst.calls, "start")
    /\ (hpc = "stop_wrapped") => /\ started.inner = NoInstance
                                 /\ ~inst.processing

\* Two rounds: one ended by stop_processing, one by dropping the started
\* handle, with a refused start on the way.
C30_Witness ==
    /\ hpc = "idle"
    /\ ~started.live
    /\ ~stopped.live
    /\ Count(inst.calls, "start") = 2
    /\ Count(inst.calls, "refused") = 1
    /\ Count(inst.calls, "stop") = 2

\* C29: the steady_time of the next process call of the audio callback is
\* the total number of frames handed to the plugin in the calls before it,
\* whether those calls returned Ok or Err.
C29_SteadyTimeCountsFrames == steady_counter = handed

\* C26: an extension is declared only for a host type whose partition
\* named by the extension provides the implementation trait, and the
\* callback of a declared extension runs the implementation of that
\* partition: HostState is declared only when the main-thread type provides
\* HostStateImplementation, and mark_dirty reaches the main-thread
\* partition only.
C26_RegisteredForTheRightPartition ==
    /\ \A ext \in declared : Where(ext) \subseteq impls
    /\ "HostState" \in declared =>
           <<"HostStateImplementation", "MainThread">> \in impls
    /\ reached.ext # "none" =>
           /\ reached.ext \in declared
           /\ \E req \in Where(reached.ext) : reached.partition = req[2]
    /\ reached.method = "mark_dirty" => reached.partition = "MainThread"

\* mark_dirty was called on a host whose shared and audio-processor types
\* provide the trait as well.
C26_Witness ==
    /\ reached.method = "mark_dirty"
    /\ <<"HostStateImplementation", "Shared">> \in impls
    /\ <<"HostStateImplementation", "AudioProcessor">> \in impls
    /\ "HostLog" \notin declared

\* C25: an extension the plugin does not support is seen as absent by the
\* host, and no panic comes of it: without the timer extension on_timer is
\* never called, without the audio-ports extension the configuration built
\* is one stereo input port and one stereo output port, and without the GUI
\* extension `run` reaches the headless loop unless the stream fails.
C25_AbsentExtensionDisablesFeature ==
    ui # "none" =>
        /\ cpal.gui <=> plug.gui # "absent"
        /\ cpal.timer_support <=> plug.timer
        /\ cpal.audio_ports <=> plug.audio_ports
        /\ ~plug.timer => on_timer = {}
        /\ (~plug.audio_ports /\ ui # "instantiated") =>
               /\ ports.built
               /\ ports.input_channel_counts = <<2>>
               /\ ports.output_channel_counts = <<2>>
        /\ (plug.gui = "absent" /\ ui \notin {"instantiated", "scanned"}) =>
               ui \in {"cli", "failed"} \/ (ui = "panicked" /\ plug.audio_ports)
        /\ ui = "panicked" => plug.audio_ports

\* A plugin with none of the three extensions registered two timers and the
\* headless loop ran for more than 60 ms.
C25_Witness ==
    /\ plug = Plugin("absent", FALSE, FALSE)
    /\ ui = "cli"
    /\ DOMAIN timers.timers = {1, 2}
    /\ now > DefaultWait

\* C27: once a UI loop of the host runs and more than 60 ms have passed
\* since the plugin, having the timer extension, registered a timer, the
\* plugin's on_timer has been called with the timer's id, in floating,
\* embedded and headless mode alike.
C27_TimersFireInEveryMode ==
    (ui \in Looping /\ plug.timer) =>
        \A i \in DOMAIN timers.timers :
            now - fired[i] > DefaultWait => i \in on_timer

\* The time until a timer is due next: its interval less the time since
\* it fired last, or since it was registered if it has not fired.
Remaining(i) == timers.timers[i].interval - (now - fired[i])

\* C28: with the plugin's timer extension, the duration the embedded loop
\* reads from smallest_duration after ticking is the time remaining until
\* the next timer is due.
C28_SmallestDurationIsTimeRemaining ==
    [][(CpalEmbeddedEvent /\ cpal.timer_support /\ DOMAIN timers'.timers # {}) =>
           /\ pending'.some
           /\ pending'.v =
                  MinOf({Remaining(i)' : i \in DOMAIN timers'.timers})]_allVars

\* C31: whenever more than a timer's interval has passed since it fired
\* last, the next tick_all reports it, however often the timers are ticked.
C31_TimerFiresAgainWhenDue ==
    [][TimerTick =>
           \A i \in DOMAIN timers.timers :
               now - fired[i] > timers.timers[i].interval =>
                   fired'[i] = now]_allVars

\* C32: the smallest duration of the Timers is the least interval of the
\* registered timers, and None exactly when none is registered.
C32_SmallestDurationIsMinimumInterval ==
    /\ Timers_smallest_duration(timers) =
           Option_min({timers.timers[i].interval : i \in DOMAIN timers.timers})
    /\ ~Timers_smallest_duration(timers).some <=> DOMAIN timers.timers = {}

\* The timer with the smaller interval was unregistered and the other is
\* left.
C32_Witness ==
    /\ answer = Answer("unregister", 1, TRUE)
    /\ DOMAIN timers.timers = {2}
    /\ timers.timers[2].interval = 5
    /\ timers.smallest_duration = Some(5)

\* C33: register_new returns an id that no call before it returned, also
\* after timers were unregistered: the ids given out are those up to
\* latest_id, the ids of the registered timers are among them, and the
\* new id is past them.
C33_TimerIdsAreNeverReused ==
    [][/\ DOMAIN timers.timers \subseteq 1..timers.latest_id
       /\ timers'.latest_id >= timers.latest_id
       /\ TimerRegister =>
              /\ answer'.id \notin 1..timers.latest_id
              /\ answer'.id = timers'.latest_id
              /\ DOMAIN timers'.timers = DOMAIN timers.timers \cup {answer'.id}
       /\ TimerUnregister =>
              \A i \in DOMAIN timers'.timers : timers'.timers[i] = timers.timers[i]]_allVars

\* A timer was registered after the first one was unregistered.
C33_Witness ==
    /\ answer = Answer("register", 2, TRUE)
    /\ DOMAIN timers.timers = {2}

\* C34: unregister_timer with an id that is not registered fails and
\* changes neither the timers nor the smallest duration; with a registered
\* id it succeeds and removes that timer and no other, after which the id
\* is not registered.
C34_UnregisterRemovesOnlyRegistered ==
    [][TimerUnregister =>
           /\ answer'.op = "unregister"
           /\ answer'.id \notin DOMAIN timers'.timers
           /\ IF answer'.id \in DOMAIN timers.timers
              THEN /\ answer'.ok
                   /\ DOMAIN timers'.timers = DOMAIN timers.timers \ {answer'.id}
                   /\ \A i \in DOMAIN timers'.timers :
                          timers'.timers[i] = timers.timers[i]
                   /\ timers'.latest_id = timers.latest_id
              ELSE /\ ~answer'.ok
                   /\ timers' = timers]_allVars

\* The same id was unregistered a second time, with another timer still
\* registered.
C34_Witness ==
    /\ answer = Answer("unregister", 1, FALSE)
    /\ timers.latest_id = 2
    /\ DOMAIN timers.timers = {2}
    /\ timers.smallest_duration.some

\* C35: when a UI loop has ended, the plugin's GUI was destroyed as often
\* as it was created, and at no time more often.
C35_GuiDestroyedOnceBeforeLoopEnds ==
    /\ pgui.destroyed <= pgui.created
    /\ loop = "exited" => pgui.destroyed = pgui.created

\* The requests whose message waits in the channel, in the order sent.
Waiting == SelectSeq(channel, LAMBDA m : m.kind = "RunOnMainThread")

\* What never goes wrong with the requests: until the function holding the receiver
\* returns, the callbacks run are the requests 1, 2, ... in the order
\* sent, each once and on the main thread, and the requests not yet run
\* wait in the channel in the order sent, none lost.
RequestsInOrder ==
    loop \in Receiving \cup {"none", "closing"} =>
        /\ \A i \in 1..Len(ran) : ran[i].n = i /\ ran[i].on = "main"
        /\ \A i \in 1..Len(Waiting) : Waiting[i].n = Len(ran) + i
        /\ Len(ran) + Len(Waiting) = requests

\* C36: with that, every request made while a UI loop runs gets its
\* callback, unless the loop ends first.
C36_EveryRequestRunsOnMainThread ==
    /\ []RequestsInOrder
    /\ \A n \in 1..MaxRequests :
           (requests >= n /\ loop \in Receiving)
               ~> (Len(ran) >= n \/ loop \notin Receiving)

\* Two requests, the second from the audio thread, both ran in the
\* headless loop.
C36_Witness ==
    /\ loop = "cli"
    /\ Len(ran) = 2
    /\ requests = 2
    /\ ran[1].from = "main"
    /\ ran[2].from = "audio"
    /\ channel = <<>>

\* C37: in every process call, what Process::transport gives the plugin is
\* a reference to the TransportEvent the host passed, also when the host
\* passed None and wrote a null pointer into the record.
C37_TransportIsNeverNullDereferenced ==
    seen.what = "transport" =>
        /\ seen.value.kind = "TransportEvent"
        /\ record.transport # "null"

\* The bytes of a slice of the caller's memory.
SliceBytes(sl) == [i \in 1..sl.len |-> Cells[sl.ptr + i - 1]]

\* C38: a sysex event made by `new` keeps the address of the buffer and its
\* length modulo the number of values of the size field: buffer_size() is
\* that, which is the length itself for a buffer that fits; data() is the
\* first buffer_size() bytes of the buffer, all of it for a buffer that
\* fits, and never a byte past its end; set_port_index changes the port
\* index and nothing else.
C38_SysExKeepsAddressAndLength ==
    [][/\ sysex' # NoEvent =>
              /\ sysex'.inner.data.buffer = given'.ptr
              /\ sysex'.inner.data.size = given'.len % SizeModulus
              /\ sysex'.inner.data.size <= given'.len
              /\ given'.len < SizeModulus => sysex'.inner.data.size = given'.len
       /\ bytes'.what = "buffer_size" =>
              /\ bytes'.size = given'.len % SizeModulus
              /\ given'.len < SizeModulus => bytes'.size = given'.len
       /\ bytes'.what = "data" =>
              /\ Len(bytes'.data) <= given'.len
              /\ \A i \in 1..Len(bytes'.data) :
                     bytes'.data[i] = SliceBytes(given')[i]
              /\ given'.len < SizeModulus => bytes'.data = SliceBytes(given')
       /\ SysExSetPortIndex =>
              /\ sysex'.inner.header = sysex.inner.header
              /\ sysex'.inner.data = sysex.inner.data
              /\ sysex'.type = sysex.type]_allVars

\* data() of an event made from a buffer longer than the size field can
\* say, after its port index was set to another value.
C38_Witness ==
    /\ given.len > SizeModulus
    /\ bytes.what = "data"
    /\ Len(bytes.data) = given.len - SizeModulus
    /\ bytes.data[1] = given.ptr
    /\ given.ptr = 1
    /\ sysex.inner.port_index = 1
    /\ sysex.inner.header.time = 1


====
